---------------------------- MODULE Spec2Model ----------------------------
(***************************************************************************)
(* Trend analysis and forecasting of the currency-conversion dashboard:    *)
(* the client library client/src/lib/trendAnalysis.ts and the two build    *)
(* variants of the server's GET /api/forecast and GET /api/historical      *)
(* handlers (server/routes.ts, which asks an external rate provider, and   *)
(* the hardcoded-rates variant).                                           *)
(*                                                                         *)
(* Numbers.  A JavaScript number is modelled as an extended rational       *)
(* [n |-> numerator, d |-> denominator] in lowest terms with d >= 0:       *)
(*   d > 0          the finite value n/d                                   *)
(*   n = 0,  d = 0  NaN                                                    *)
(*   n = 1,  d = 0  +Infinity                                              *)
(*   n = -1, d = 0  -Infinity                                              *)
(* Arithmetic on finite values is exact: the rounding of IEEE-754 doubles  *)
(* and the sign of zero are not modelled, except in the action             *)
(* CallCalculateStatisticsRounded, which rounds every result of            *)
(* calculateStatistics to Precision significant bits.  Division by zero,   *)
(* NaN propagation and the NaN behaviour of comparisons, Math.min and      *)
(* Math.max are modelled as JavaScript defines them.                       *)
(***************************************************************************)
EXTENDS Integers, Sequences, FiniteSets, TLC

\* The call or request in progress:
\* op:    the function called last, or the route of the request handled last
\*        ("none" before the first call and between two requests)
\* rates: the series the function was called with; for a request, the series
\*        its handler passed to generateForecast
\* days:  the horizon generateForecast was called with
\* rnd:   the values Math.random() returned to generateForecast, in order
\* ret:   the value the function returned, or the body of the response
\* thrown: the error the call ended with, "none" when it returned normally
VARIABLES op, rates, days, rnd, ret, thrown

callVars == <<op, rates, days, rnd, ret, thrown>>

\* The server:
\* variant: the build, "external" (server/routes.ts, which asks the rate
\*          provider) or "hardcoded" (the routes file with the rate tables)
\* now:     the current day, as a day number
\* exchangeRateRecords, exchangeRateId: MemStorage's exchange rates, in the
\*          order of insertion (the iteration order of its Map), and its counter
\* query:   the query parameters of the request handled last
\* status:  the HTTP status of its response
\* branch:  the branch of the handler that produced the response
VARIABLES variant, now, exchangeRateRecords, exchangeRateId, query, status, branch

serverVars == <<variant, now, exchangeRateRecords, exchangeRateId, query, status, branch>>

\* MemStorage's other records (server/storage.ts):
\* users, userId: the users, in the order of insertion, and their counter
\* conversionRecords, conversionId: the conversions and their counter
\* args:  the arguments of the MemStorage method called last
VARIABLES users, userId, conversionRecords, conversionId, args

recordVars == <<users, userId, conversionRecords, conversionId, args>>

\* The CurrencyConverter component (client/src/components/CurrencyConverter.tsx):
\* amount, fromCurrency, toCurrency: its state
\* rateData, rateLoading: the result of its /api/rate query
\* pending: the executions of saveMutation that have not settled, oldest
\*          first: what mutationFn returned for each
\* posts:   the number of POST /api/conversions requests sent so far
\* toasts:  the titles of the toasts shown so far
\* invalidations: the number of invalidateQueries calls so far
VARIABLES amount, fromCurrency, toCurrency, rateData, rateLoading, pending,
          posts, toasts, invalidations

converterVars == <<amount, fromCurrency, toCurrency, rateData, rateLoading,
                   pending, posts, toasts, invalidations>>

\* The chart components (ForecastChart.tsx, HistoricalRatesChart.tsx), each
\* variable a function of the component:
\* mounted:   whether the component is mounted
\* queryData, isLoading: the result of its query at the last render
\* currencyPair: its fromCurrency and toCurrency props at the last render
\* chartInstance: chartInstance.current, a chart (its index in charts) or null
\* effectCleanup: whether the last run of the effect returned its cleanup
\* phase:     where React is in committing the last render
\* charts:    every Chart constructed so far: its component, whether
\*            destroy() was called on it
VARIABLES mounted, queryData, isLoading, currencyPair, chartInstance,
          effectCleanup, phase, charts

chartVars == <<mounted, queryData, isLoading, currencyPair, chartInstance,
               effectCleanup, phase, charts>>

clientVars == <<converterVars, chartVars>>

vars == <<callVars, serverVars, recordVars, clientVars>>

-----------------------------------------------------------------------------
(* Bounds of the model *)

\* longest series of freely chosen rates
MaxLen == 3
\* longest arithmetic (perfectly linear) series
MaxLinLen == 5
\* largest forecast horizon
MaxDays == 2
\* bits of the significand of the rounded numbers (53 in the source's doubles)
Precision == 4

-----------------------------------------------------------------------------
(* JavaScript numbers *)

Abs(i) == IF i < 0 THEN -i ELSE i

RECURSIVE Gcd(_, _)
Gcd(a, b) == IF b = 0 THEN a ELSE Gcd(b, a % b)

\* the finite number n/d (d > 0), in lowest terms
Norm(n, d) ==
  LET g == Gcd(Abs(n), d) IN [n |-> n \div g, d |-> d \div g]

Num(i) == [n |-> i, d |-> 1]

NaN == [n |-> 0, d |-> 0]
Infinity == [n |-> 1, d |-> 0]
NegInfinity == [n |-> -1, d |-> 0]

IsNaN(a) == a.d = 0 /\ a.n = 0
IsFinite(a) == a.d > 0
Sign(a) == IF a.n > 0 THEN 1 ELSE IF a.n < 0 THEN -1 ELSE 0

Neg(a) == [n |-> -a.n, d |-> a.d]

\* Math.abs(a)
AbsOf(a) == IF a.n < 0 THEN Neg(a) ELSE a

\* a + b
Add(a, b) ==
  IF IsNaN(a) \/ IsNaN(b) THEN NaN
  ELSE IF a.d = 0 /\ b.d = 0 THEN (IF a.n = b.n THEN a ELSE NaN)
  ELSE IF a.d = 0 THEN a
  ELSE IF b.d = 0 THEN b
  ELSE LET g == Gcd(a.d, b.d)
       IN Norm(a.n * (b.d \div g) + b.n * (a.d \div g), (a.d \div g) * b.d)

\* a - b
Sub(a, b) == Add(a, Neg(b))

\* a * b
Mul(a, b) ==
  IF IsNaN(a) \/ IsNaN(b) THEN NaN
  ELSE IF a.d = 0 \/ b.d = 0
    THEN (IF Sign(a) * Sign(b) = 0 THEN NaN ELSE [n |-> Sign(a) * Sign(b), d |-> 0])
  ELSE LET g1 == Gcd(Abs(a.n), b.d)
           g2 == Gcd(Abs(b.n), a.d)
       IN Norm((a.n \div g1) * (b.n \div g2), (a.d \div g2) * (b.d \div g1))

\* a / b
Div(a, b) ==
  IF IsNaN(a) \/ IsNaN(b) THEN NaN
  ELSE IF a.d = 0 /\ b.d = 0 THEN NaN
  ELSE IF b.d = 0 THEN Num(0)
  ELSE IF b.n = 0 THEN (IF a.n = 0 THEN NaN ELSE [n |-> Sign(a), d |-> 0])
  ELSE IF a.d = 0 THEN [n |-> Sign(a) * Sign(b), d |-> 0]
  ELSE Mul(a, IF b.n > 0 THEN [n |-> b.d, d |-> b.n] ELSE [n |-> -b.d, d |-> -b.n])

\* a < b, a > b, a <= b: false as soon as one side is NaN
Lt(a, b) == ~IsNaN(a) /\ ~IsNaN(b) /\ a # b /\ Sign(Sub(a, b)) < 0
Gt(a, b) == Lt(b, a)
Le(a, b) == ~IsNaN(a) /\ ~IsNaN(b) /\ (a = b \/ Lt(a, b))

\* Math.min(a, b) and Math.max(a, b)
MathMin(a, b) == IF IsNaN(a) \/ IsNaN(b) THEN NaN ELSE IF Lt(b, a) THEN b ELSE a
MathMax(a, b) == IF IsNaN(a) \/ IsNaN(b) THEN NaN ELSE IF Gt(b, a) THEN b ELSE a

\* Math.pow(a, 2)
Pow2(a) == Mul(a, a)

-----------------------------------------------------------------------------
(* Array helpers *)

\* Array.from({ length: n }, (_, i) => i)
Indices(n) == [i \in 1..n |-> Num(i - 1)]

\* s.reduce((sum, val) => sum + val, 0)
RECURSIVE SumSeq(_)
SumSeq(s) == IF s = <<>> THEN Num(0) ELSE Add(SumSeq(SubSeq(s, 1, Len(s) - 1)), s[Len(s)])

\* Math.min(...s) and Math.max(...s): Infinity and -Infinity for no arguments,
\* NaN when an argument is NaN, else the least and the greatest argument
MinSeq(s) ==
  IF s = <<>> THEN Infinity
  ELSE IF \E i \in 1..Len(s) : IsNaN(s[i]) THEN NaN
  ELSE s[CHOOSE i \in 1..Len(s) : \A j \in 1..Len(s) : Le(s[i], s[j])]

MaxSeq(s) ==
  IF s = <<>> THEN NegInfinity
  ELSE IF \E i \in 1..Len(s) : IsNaN(s[i]) THEN NaN
  ELSE s[CHOOSE i \in 1..Len(s) : \A j \in 1..Len(s) : Le(s[j], s[i])]

-----------------------------------------------------------------------------
(* client/src/lib/trendAnalysis.ts *)

\* linearRegression with sumXX summing val where the source sums val * val
linearRegressionUnsquared(y) ==
  LET x == Indices(Len(y))
      n == Num(Len(y))
      sumX == SumSeq(x)
      sumY == SumSeq(y)
      sumXY == SumSeq([i \in 1..Len(y) |-> Mul(x[i], y[i])])
      sumXX == SumSeq(x)
      slope == Div(Sub(Mul(n, sumXY), Mul(sumX, sumY)),
                   Sub(Mul(n, sumXX), Mul(sumX, sumX)))
      intercept == Div(Sub(sumY, Mul(slope, sumX)), n)
  IN [slope |-> slope, intercept |-> intercept]

\* linearRegression with the positions counted from 1 where the source counts from 0
linearRegressionFromOne(y) ==
  LET x == [i \in 1..Len(y) |-> Num(i)]
      n == Num(Len(y))
      sumX == SumSeq(x)
      sumY == SumSeq(y)
      sumXY == SumSeq([i \in 1..Len(y) |-> Mul(x[i], y[i])])
      sumXX == SumSeq([i \in 1..Len(y) |-> Mul(x[i], x[i])])
      slope == Div(Sub(Mul(n, sumXY), Mul(sumX, sumY)),
                   Sub(Mul(n, sumXX), Mul(sumX, sumX)))
      intercept == Div(Sub(sumY, Mul(slope, sumX)), n)
  IN [slope |-> slope, intercept |-> intercept]

linearRegression(y) ==
  LET x == Indices(Len(y))
      n == Num(Len(y))
      sumX == SumSeq(x)
      sumY == SumSeq(y)
      sumXY == SumSeq([i \in 1..Len(y) |-> Mul(x[i], y[i])])
      sumXX == SumSeq([i \in 1..Len(y) |-> Mul(x[i], x[i])])
      slope == Div(Sub(Mul(n, sumXY), Mul(sumX, sumY)),
                   Sub(Mul(n, sumXX), Mul(sumX, sumX)))
      intercept == Div(Sub(sumY, Mul(slope, sumX)), n)
  IN [slope |-> slope, intercept |-> intercept]

\* the noise ten times as wide: (Math.random() - 0.5) * 0.02
NoiseOfWide(r) == Mul(Sub(r, Norm(1, 2)), Norm(2, 100))

\* (Math.random() - 0.5) * 0.002
NoiseOf(r) == Mul(Sub(r, Norm(1, 2)), Norm(2, 1000))

\* generateForecast starting at the last observed position: x = lastX + i
generateForecastFromLast(y, d, r) ==
  LET fit == linearRegression(y)
      lastX == Len(y) - 1
  IN [i \in 1..d |->
        LET x == Num(lastX + (i - 1))
            predictedValue == Add(Mul(fit.slope, x), fit.intercept)
        IN Add(predictedValue, NoiseOf(r[i]))]

\* r: the values of Math.random(), one per forecast point
generateForecast(y, d, r) ==
  LET fit == linearRegression(y)
      lastX == Len(y) - 1
  IN [i \in 1..d |->
        LET x == Num(lastX + (i - 1) + 1)
            predictedValue == Add(Mul(fit.slope, x), fit.intercept)
        IN Add(predictedValue, NoiseOf(r[i]))]

\* calculateStatistics with the sum of the rates for their average
calculateStatisticsOfSum(y) ==
  LET min == MinSeq(y)
      max == MaxSeq(y)
      average == SumSeq(y)
      volatility == Mul(Div(Sub(max, min), average), Num(100))
  IN [average |-> average, min |-> min, max |-> max, volatility |-> volatility]

calculateStatistics(y) ==
  LET min == MinSeq(y)
      max == MaxSeq(y)
      average == Div(SumSeq(y), Num(Len(y)))
      volatility == Mul(Div(Sub(max, min), average), Num(100))
  IN [average |-> average, min |-> min, max |-> max, volatility |-> volatility]

\* Rounding of doubles.  The source computes in IEEE-754 doubles, whose
\* significand has 53 bits; the model rounds to Precision bits in the same way
\* (to the nearest value, ties to the even significand).  Exponents are not
\* limited: no overflow to Infinity and no subnormal numbers.
TwoTo(k) == IF k <= 0 THEN 1 ELSE 2 ^ k

\* the value m * 2^e nearest to the positive n/d, TwoTo(Precision - 1) <= m <= TwoTo(Precision)
RECURSIVE RoundPositive(_, _)
RoundPositive(n, d) ==
  IF n >= d * TwoTo(Precision) THEN Mul(Num(2), RoundPositive(n, 2 * d))
  ELSE IF n < d * TwoTo(Precision - 1) THEN Div(RoundPositive(2 * n, d), Num(2))
  ELSE LET q == n \div d
           r == n % d
       IN Num(IF 2 * r > d \/ (2 * r = d /\ q % 2 = 1) THEN q + 1 ELSE q)

RoundNearestEven(x) ==
  IF ~IsFinite(x) \/ x.n = 0 THEN x
  ELSE IF x.n > 0 THEN RoundPositive(x.n, x.d)
  ELSE Neg(RoundPositive(-x.n, x.d))

\* a number the format holds
IsDouble(x) == RoundNearestEven(x) = x

\* s.reduce((sum, val) => sum + val, 0) with every sum rounded
RECURSIVE SumSeqRounded(_)
SumSeqRounded(s) ==
  IF s = <<>> THEN Num(0)
  ELSE RoundNearestEven(Add(SumSeqRounded(SubSeq(s, 1, Len(s) - 1)), s[Len(s)]))

\* calculateStatistics on doubles: every arithmetic result rounded
calculateStatisticsRounded(y) ==
  LET min == MinSeq(y)
      max == MaxSeq(y)
      average == RoundNearestEven(Div(SumSeqRounded(y), Num(Len(y))))
      volatility ==
        RoundNearestEven(Mul(RoundNearestEven(Div(RoundNearestEven(Sub(max, min)), average)),
                             Num(100)))
  IN [average |-> average, min |-> min, max |-> max, volatility |-> volatility]

\* calculateConfidence without the lower limit: Math.min(95, rSquared * 100)
calculateConfidenceNoFloor(y) ==
  LET fit == linearRegression(y)
      x == Indices(Len(y))
      predictions == [i \in 1..Len(y) |-> Add(Mul(fit.slope, x[i]), fit.intercept)]
      yMean == Div(SumSeq(y), Num(Len(y)))
      ssTotal == SumSeq([i \in 1..Len(y) |-> Pow2(Sub(y[i], yMean))])
      ssResidual == SumSeq([i \in 1..Len(y) |-> Pow2(Sub(y[i], predictions[i]))])
      rSquared == Sub(Num(1), Div(ssResidual, ssTotal))
  IN MathMin(Num(95), Mul(rSquared, Num(100)))

\* calculateConfidence without the upper limit: Math.max(50, rSquared * 100)
calculateConfidenceNoCeiling(y) ==
  LET fit == linearRegression(y)
      x == Indices(Len(y))
      predictions == [i \in 1..Len(y) |-> Add(Mul(fit.slope, x[i]), fit.intercept)]
      yMean == Div(SumSeq(y), Num(Len(y)))
      ssTotal == SumSeq([i \in 1..Len(y) |-> Pow2(Sub(y[i], yMean))])
      ssResidual == SumSeq([i \in 1..Len(y) |-> Pow2(Sub(y[i], predictions[i]))])
      rSquared == Sub(Num(1), Div(ssResidual, ssTotal))
  IN MathMax(Num(50), Mul(rSquared, Num(100)))

calculateConfidence(y) ==
  LET fit == linearRegression(y)
      x == Indices(Len(y))
      predictions == [i \in 1..Len(y) |-> Add(Mul(fit.slope, x[i]), fit.intercept)]
      yMean == Div(SumSeq(y), Num(Len(y)))
      ssTotal == SumSeq([i \in 1..Len(y) |-> Pow2(Sub(y[i], yMean))])
      ssResidual == SumSeq([i \in 1..Len(y) |-> Pow2(Sub(y[i], predictions[i]))])
      rSquared == Sub(Num(1), Div(ssResidual, ssTotal))
  IN MathMin(Num(95), MathMax(Num(50), Mul(rSquared, Num(100))))

\* y[0] and y[y.length - 1] of a JavaScript array: undefined when the array is
\* empty, and undefined becomes NaN in arithmetic
First(y) == IF Len(y) = 0 THEN NaN ELSE y[1]
Last(y) == IF Len(y) = 0 THEN NaN ELSE y[Len(y)]

\* the thresholds taken as 'up' and 'down': slope >= 0.0001, slope <= -0.0001
SlopeDirectionInclusive(slope) ==
  IF Le(Norm(1, 10000), slope) THEN "up"
  ELSE IF Le(slope, Norm(-1, 10000)) THEN "down"
  ELSE "stable"

\* slope > 0.0001 ? 'up' : slope < -0.0001 ? 'down' : 'stable'
SlopeDirection(slope) ==
  IF Gt(slope, Norm(1, 10000)) THEN "up"
  ELSE IF Lt(slope, Norm(-1, 10000)) THEN "down"
  ELSE "stable"

\* analyzeTrend taking the direction from the sign of percentChange
analyzeTrendOfEndpoints(y) ==
  LET firstRate == First(y)
      lastRate == Last(y)
      percentChange == Mul(Div(Sub(lastRate, firstRate), firstRate), Num(100))
  IN [direction |-> IF Gt(percentChange, Num(0)) THEN "up"
                    ELSE IF Lt(percentChange, Num(0)) THEN "down" ELSE "stable",
      percentChange |-> percentChange]

analyzeTrend(y) ==
  LET slope == linearRegression(y).slope
      firstRate == First(y)
      lastRate == Last(y)
      percentChange == Mul(Div(Sub(lastRate, firstRate), firstRate), Num(100))
  IN [direction |-> SlopeDirection(slope), percentChange |-> percentChange]

-----------------------------------------------------------------------------
(* The series and random values the functions are called with *)

\* all sequences over S of length lo..hi
SeqsOf(S, lo, hi) == UNION {[1..k -> S] : k \in lo..hi}

Rates == {Num(-1), Num(0), Norm(1, 2), Num(1), Num(2)}

\* rates one or two ten-thousandths apart, around the slope thresholds
FineRates == {Norm(9998, 10000), Num(1), Norm(10001, 10000), Norm(10002, 10000)}

\* the perfectly linear series a, a + d, a + 2d, ...
LinearSeries ==
  {[i \in 1..k |-> Add(a, Mul(d, Num(i - 1)))] :
     a \in {Num(0), Num(1), Norm(9, 10)},
     d \in {Num(-1), Num(1), Norm(1, 100), Norm(1, 10000), Norm(2, 10000), Norm(-2, 10000)},
     k \in 2..MaxLinLen}

CoarseSeries == SeqsOf(Rates, 0, MaxLen) \cup LinearSeries

\* rates whose sums need one bit more than they have themselves
WideRates == {Norm(7, 4), Norm(11, 4)}
WideSeries == SeqsOf(WideRates, 1, MaxLen)

\* series of positive rates that rise in the middle and end below their first
\* rate, and the reverse
NoisySeries ==
  {<<Num(1), Norm(1, 2), Num(2), Num(2), Norm(1, 2)>>,
   <<Norm(1, 2), Num(2), Num(2), Norm(1, 2), Num(1)>>}

AnySeries == CoarseSeries \cup SeqsOf(FineRates, 2, MaxLen) \cup WideSeries \cup NoisySeries

\* values of Math.random(), which lie in [0, 1)
RandomValues == {Num(0), Norm(1, 2), Norm(3, 4)}

\* the values Math.random() returns to a simulated history
SimulationRandomValues == {Num(0), Norm(3, 4)}

-----------------------------------------------------------------------------
(* The parts of the program a specification does not run stay as they are *)
(* after construction.                                                    *)

Components == {"ForecastChart", "HistoricalRatesChart"}

\* useRef<Chart | null>(null)
Null == 0

\* server/storage.ts, the constructor: empty maps, counters at 1
NoRecords ==
  /\ users = <<>>
  /\ userId = 1
  /\ conversionRecords = <<>>
  /\ conversionId = 1
  /\ args = <<>>

\* the components before they are mounted; an undefined rateData is <<>>
NoClient ==
  /\ amount = 1
  /\ fromCurrency = "USD"
  /\ toCurrency = "EUR"
  /\ rateData = <<>>
  /\ rateLoading = TRUE
  /\ pending = <<>>
  /\ posts = 0
  /\ toasts = <<>>
  /\ invalidations = 0
  /\ mounted = [c \in Components |-> FALSE]
  /\ queryData = [c \in Components |-> "undefined"]
  /\ isLoading = [c \in Components |-> TRUE]
  /\ currencyPair = [c \in Components |-> <<"USD", "EUR">>]
  /\ chartInstance = [c \in Components |-> Null]
  /\ effectCleanup = [c \in Components |-> FALSE]
  /\ phase = [c \in Components |-> "idle"]
  /\ charts = <<>>

-----------------------------------------------------------------------------
(* One action per exported function of trendAnalysis.ts.  A behaviour is *)
(* one call on the series drawn initially, and any number of further     *)
(* calls of the same function on that series; generateForecast is called *)
(* once.                                                                 *)

Init ==
  /\ op = "none"
  /\ rates \in AnySeries
  /\ days = 0
  /\ rnd = <<>>
  /\ ret = NaN
  /\ thrown = "none"
  /\ variant = "external"
  /\ now = 0
  /\ exchangeRateRecords = <<>>
  /\ exchangeRateId = 1
  /\ query = <<>>
  /\ status = 0
  /\ branch = "none"
  /\ NoRecords
  /\ NoClient

CallLinearRegression ==
  /\ op \in {"none", "linearRegression"}
  /\ op' = "linearRegression"
  /\ ret' = linearRegression(rates)
  /\ thrown' = "none"
  /\ UNCHANGED <<rates, days, rnd, serverVars, recordVars, clientVars>>

CallGenerateForecast ==
  /\ op = "none"
  /\ \E d \in 1..MaxDays :
       \E r \in [1..d -> RandomValues] :
         /\ op' = "generateForecast"
         /\ days' = d
         /\ rnd' = r
         /\ ret' = generateForecast(rates, d, r)
  /\ thrown' = "none"
  /\ UNCHANGED <<rates, serverVars, recordVars, clientVars>>

CallCalculateStatistics ==
  /\ op \in {"none", "calculateStatistics"}
  /\ op' = "calculateStatistics"
  /\ ret' = calculateStatistics(rates)
  /\ thrown' = "none"
  /\ UNCHANGED <<rates, days, rnd, serverVars, recordVars, clientVars>>

\* the same call, computed as doubles compute it; the series holds doubles
CallCalculateStatisticsRounded ==
  /\ op \in {"none", "calculateStatistics in doubles"}
  /\ \A i \in 1..Len(rates) : IsDouble(rates[i])
  /\ op' = "calculateStatistics in doubles"
  /\ ret' = calculateStatisticsRounded(rates)
  /\ thrown' = "none"
  /\ UNCHANGED <<rates, days, rnd, serverVars, recordVars, clientVars>>

\* squares of rates ten-thousandths apart exceed TLC's integers: the coarse
\* series only
CallCalculateConfidence ==
  /\ op \in {"none", "calculateConfidence"}
  /\ rates \in CoarseSeries
  /\ op' = "calculateConfidence"
  /\ ret' = calculateConfidence(rates)
  /\ thrown' = "none"
  /\ UNCHANGED <<rates, days, rnd, serverVars, recordVars, clientVars>>

\* analyzeTrend reading the last rate with rates.pop(), which removes it
CallAnalyzeTrendPopping ==
  /\ op \in {"none", "analyzeTrend"}
  /\ op' = "analyzeTrend"
  /\ ret' = analyzeTrend(rates)
  /\ rates' = SubSeq(rates, 1, Len(rates) - 1)
  /\ thrown' = "none"
  /\ UNCHANGED <<days, rnd, serverVars, recordVars, clientVars>>

CallAnalyzeTrend ==
  /\ op \in {"none", "analyzeTrend"}
  /\ op' = "analyzeTrend"
  /\ ret' = analyzeTrend(rates)
  /\ thrown' = "none"
  /\ UNCHANGED <<rates, days, rnd, serverVars, recordVars, clientVars>>

Next ==
  \/ CallLinearRegression
  \/ CallGenerateForecast
  \/ CallCalculateStatistics
  \/ CallCalculateStatisticsRounded
  \/ CallCalculateConfidence
  \/ CallAnalyzeTrend

Spec == Init /\ [][Next]_vars

-----------------------------------------------------------------------------
(* server/storage.ts: MemStorage's exchange rates *)

\* a value or undefined: the sequence of the value, or the empty sequence
None == <<>>
Some(v) == <<v>>

\* Map.prototype.set(key, value) on a map kept in the order of insertion: a
\* key already present keeps its place and gets the new value
MapSet(m, key, value) ==
  IF \E i \in 1..Len(m) : m[i].id = key
    THEN [i \in 1..Len(m) |-> IF m[i].id = key THEN value ELSE m[i]]
    ELSE Append(m, value)

\* this.userId++, this.conversionId++, this.exchangeRateId++: the counter
\* after the call (the id taken is its value before)
IncrementStuck(counter) == counter

Increment(counter) == counter + 1

\* saveExchangeRate: the records after the call; the counter becomes id + 1
saveExchangeRate(records, id, insertRate) ==
  MapSet(records, id, [id |-> id,
                   baseCurrency |-> insertRate.baseCurrency,
                   targetCurrency |-> insertRate.targetCurrency,
                   rate |-> insertRate.rate,
                   date |-> insertRate.date])

\* s.sort((a, b) => a.date.getTime() - b.date.getTime()): stable, ascending
RECURSIVE InsertByDate(_, _)
InsertByDate(sorted, r) ==
  IF sorted = <<>> THEN <<r>>
  ELSE IF sorted[Len(sorted)].date <= r.date THEN Append(sorted, r)
  ELSE Append(InsertByDate(SubSeq(sorted, 1, Len(sorted) - 1), r), sorted[Len(sorted)])

RECURSIVE SortByDate(_)
SortByDate(s) ==
  IF s = <<>> THEN <<>>
  ELSE InsertByDate(SortByDate(SubSeq(s, 1, Len(s) - 1)), s[Len(s)])

getExchangeRatesInSavedOrder(records, baseCurrency, targetCurrency, d, today) ==
  LET targetDate == today - d
      keep(rate) == /\ rate.baseCurrency = baseCurrency
                    /\ rate.targetCurrency = targetCurrency
                    /\ rate.date >= targetDate
  IN SelectSeq(records, keep)

getExchangeRates(records, baseCurrency, targetCurrency, d, today) ==
  LET targetDate == today - d
      keep(rate) == /\ rate.baseCurrency = baseCurrency
                    /\ rate.targetCurrency = targetCurrency
                    /\ rate.date >= targetDate
  IN SortByDate(SelectSeq(records, keep))

\* getUser: this.users.get(id)
getUser(records, id) ==
  LET found(user) == user.id = id
      hits == SelectSeq(records, found)
  IN IF hits = <<>> THEN None ELSE Some(hits[1])

\* getUserByUsername: the first user, in the order of insertion, of that name
getUserByUsername(records, username) ==
  LET found(user) == user.username = username
      hits == SelectSeq(records, found)
  IN IF hits = <<>> THEN None ELSE Some(hits[1])

\* createUser: the users after the call
createUser(records, id, insertUser) ==
  MapSet(records, id, [id |-> id,
                       username |-> insertUser.username,
                       password |-> insertUser.password])

\* saveConversion: the conversions after the call; createdAt is new Date()
saveConversion(records, id, insertConversion, createdAt) ==
  MapSet(records, id, [id |-> id,
                       amount |-> insertConversion.amount,
                       fromCurrency |-> insertConversion.fromCurrency,
                       toCurrency |-> insertConversion.toCurrency,
                       rate |-> insertConversion.rate,
                       result |-> insertConversion.result,
                       createdAt |-> createdAt])

\* s.sort((a, b) => b.createdAt.getTime() - a.createdAt.getTime()): stable,
\* descending
RECURSIVE InsertByCreatedAt(_, _)
InsertByCreatedAt(sorted, c) ==
  IF sorted = <<>> THEN <<c>>
  ELSE IF sorted[Len(sorted)].createdAt >= c.createdAt THEN Append(sorted, c)
  ELSE Append(InsertByCreatedAt(SubSeq(sorted, 1, Len(sorted) - 1), c), sorted[Len(sorted)])

RECURSIVE SortByCreatedAt(_)
SortByCreatedAt(s) ==
  IF s = <<>> THEN <<>>
  ELSE InsertByCreatedAt(SortByCreatedAt(SubSeq(s, 1, Len(s) - 1)), s[Len(s)])

\* a number used as a condition: NaN and 0 are falsy
Truthy(x) == ~IsNaN(x) /\ x.n # 0

\* s.slice(0, end): end is truncated to an integer; a negative end counts
\* from the end of s
Slice(s, end) ==
  LET k == IF end.d = 0 THEN (IF end.n > 0 THEN Len(s) ELSE -Len(s))
           ELSE IF end.n >= 0 THEN end.n \div end.d ELSE -((-end.n) \div end.d)
      final == IF k < 0 THEN (IF Len(s) + k > 0 THEN Len(s) + k ELSE 0)
               ELSE IF k < Len(s) THEN k ELSE Len(s)
  IN SubSeq(s, 1, final)

\* getConversions(limit?): limit is None when the argument is left out
getConversions(records, limit) ==
  LET conversions == SortByCreatedAt(records)
  IN IF limit # None /\ Truthy(limit[1]) THEN Slice(conversions, limit[1])
     ELSE conversions

\* s.sort((a, b) => b.date.getTime() - a.date.getTime()): stable, descending
RECURSIVE InsertByDateDescending(_, _)
InsertByDateDescending(sorted, r) ==
  IF sorted = <<>> THEN <<r>>
  ELSE IF sorted[Len(sorted)].date >= r.date THEN Append(sorted, r)
  ELSE Append(InsertByDateDescending(SubSeq(sorted, 1, Len(sorted) - 1), r),
              sorted[Len(sorted)])

RECURSIVE SortByDateDescending(_)
SortByDateDescending(s) ==
  IF s = <<>> THEN <<>>
  ELSE InsertByDateDescending(SortByDateDescending(SubSeq(s, 1, Len(s) - 1)), s[Len(s)])

\* getLatestExchangeRate taking the record of the pair that was saved last
getLatestExchangeRateSavedLast(records, baseCurrency, targetCurrency) ==
  LET keep(rate) == /\ rate.baseCurrency = baseCurrency
                    /\ rate.targetCurrency = targetCurrency
      kept == SelectSeq(records, keep)
  IN IF Len(kept) > 0 THEN Some(kept[Len(kept)]) ELSE None

\* getLatestExchangeRate: rates.length > 0 ? rates[0] : undefined
getLatestExchangeRate(records, baseCurrency, targetCurrency) ==
  LET keep(rate) == /\ rate.baseCurrency = baseCurrency
                    /\ rate.targetCurrency = targetCurrency
      sorted == SortByDateDescending(SelectSeq(records, keep))
  IN IF Len(sorted) > 0 THEN Some(sorted[1]) ELSE None

-----------------------------------------------------------------------------
(* Query parameters.  A parameter's value is the sequence of its characters; *)
(* a missing parameter is undefined, which parseInt reads as the string      *)
(* "undefined".                                                              *)

Undefined == <<"u", "n", "d", "e", "f", "i", "n", "e", "d">>

DigitValue(c) ==
  CASE c = "0" -> 0 [] c = "1" -> 1 [] c = "2" -> 2 [] c = "3" -> 3 [] c = "4" -> 4
    [] c = "5" -> 5 [] c = "6" -> 6 [] c = "7" -> 7 [] c = "8" -> 8 [] c = "9" -> 9
    [] OTHER -> -1

\* the decimal digits of s from position i on, up to the first other character
RECURSIVE ParseDigits(_, _, _, _)
ParseDigits(s, i, acc, seen) ==
  IF i > Len(s) \/ DigitValue(s[i]) < 0
  THEN (IF seen THEN Num(acc) ELSE NaN)
  ELSE ParseDigits(s, i + 1, acc * 10 + DigitValue(s[i]), TRUE)

\* parseInt(s): an optional sign, then digits; NaN when there is no digit
ParseInt(s) ==
  LET signed == Len(s) > 0 /\ s[1] \in {"-", "+"}
      v == ParseDigits(s, IF signed THEN 2 ELSE 1, 0, FALSE)
  IN IF signed /\ s[1] = "-" /\ v # Num(0) THEN Neg(v) ELSE v

\* parseInt(req.query.days as string) || 30: NaN and 0 are falsy
ParseDays(s) ==
  LET v == ParseInt(s) IN IF IsNaN(v) \/ v = Num(0) THEN 30 ELSE v.n

\* (req.query.from as string)?.toUpperCase() || fallback, for the currency
\* codes the model sends
ToUpperCase(c) ==
  CASE c = <<"u", "s", "d">> -> "USD"
    [] c = <<"U", "S", "D">> -> "USD"
    [] c = <<"E", "U", "R">> -> "EUR"
    [] c = <<"e", "u", "r">> -> "EUR"
    [] c = <<"X", "X", "X">> -> "XXX"
    [] c = <<>> -> ""

CurrencyOf(c, fallback) ==
  IF c = Undefined \/ ToUpperCase(c) = "" THEN fallback ELSE ToUpperCase(c)

\* parseFloat(x.toFixed(f)): x rounded to f decimals, halves away from zero;
\* NaN and the infinities stay
RECURSIVE Pow10(_)
Pow10(f) == IF f = 0 THEN 1 ELSE 10 * Pow10(f - 1)

ToFixed(x, f) ==
  IF ~IsFinite(x) THEN x
  ELSE LET m == Mul(AbsOf(x), Num(Pow10(f)))
           scaled == (2 * m.n + m.d) \div (2 * m.d)
           r == Norm(scaled, Pow10(f))
       IN IF x.n < 0 THEN Neg(r) ELSE r

\* Math.floor(x) of a finite x
MathFloor(x) == Num(x.n \div x.d)

-----------------------------------------------------------------------------
(* GET /api/forecast *)

\* percentChange = ((endRate - startRate) / startRate) * 100 of the first and
\* the last forecast rate
PercentChange(forecastRates) ==
  LET startRate == First(forecastRates)
      endRate == Last(forecastRates)
  IN Mul(Div(Sub(endRate, startRate), startRate), Num(100))

\* server/routes.ts: percentChange > 0 ? "up" : percentChange < 0 ? "down" : "stable"
SignDirection(percentChange) ==
  IF Gt(percentChange, Num(0)) THEN "up"
  ELSE IF Lt(percentChange, Num(0)) THEN "down"
  ELSE "stable"

\* hardcoded variant: above 0.5 'up', below -0.5 'down', else 'stable'
ThresholdDirection(percentChange) ==
  IF Gt(percentChange, Norm(1, 2)) THEN "up"
  ELSE IF Lt(percentChange, Norm(-1, 2)) THEN "down"
  ELSE "stable"

\* the dates counted from today: index i mapped to today + i days
ForecastDatesFromToday(forecastRates, today) ==
  [i \in 1..Len(forecastRates) |-> [date |-> today + (i - 1), rate |-> forecastRates[i]]]

\* forecastRates.map((rate, i) => ({ date: today + (i + 1) days, rate }))
ForecastDates(forecastRates, today) ==
  [i \in 1..Len(forecastRates) |-> [date |-> today + (i - 1) + 1, rate |-> forecastRates[i]]]

\* the body of the external variant's response (both branches build the same)
ExternalBody(forecastRates, today) ==
  LET percentChange == PercentChange(forecastRates)
  IN [forecast |-> ForecastDates(forecastRates, today),
      analysis |-> [percentChange |-> ToFixed(percentChange, 2),
                    direction |-> SignDirection(percentChange),
                    confidence |-> Num(75),
                    expectedHigh |-> ToFixed(MaxSeq(forecastRates), 4),
                    expectedLow |-> ToFixed(MinSeq(forecastRates), 4)]]

\* the hardcoded rate table, for the pairs the model sends; 1.0 for an
\* identical or unlisted pair
BaseRate(baseCurrency, targetCurrency) ==
  IF baseCurrency = targetCurrency THEN Num(1)
  ELSE IF baseCurrency = "USD" /\ targetCurrency = "EUR" THEN Norm(92, 100)
  ELSE IF baseCurrency = "EUR" /\ targetCurrency = "USD" THEN Norm(109, 100)
  ELSE Num(1)

\* baseRate + (Math.random() - 0.5) * 0.06 * baseRate, one per value of r
SimulatedHistory(baseRate, r) ==
  [i \in 1..Len(r) |->
     Add(baseRate, Mul(Mul(Sub(r[i], Norm(1, 2)), Norm(6, 100)), baseRate))]

\* the body of the hardcoded variant's response; c: the value of Math.random()
\* the confidence is drawn with
HardcodedBody(forecastRates, today, baseRate, c) ==
  LET percentChange == PercentChange(forecastRates)
  IN [forecast |-> ForecastDates(forecastRates, today),
      analysis |-> [percentChange |-> ToFixed(percentChange, 2),
                    direction |-> ThresholdDirection(percentChange),
                    confidence |-> MathFloor(Add(Num(65), Mul(c, Num(20)))),
                    expectedHigh |-> ToFixed(Mul(baseRate, Norm(103, 100)), 4),
                    expectedLow |-> ToFixed(Mul(baseRate, Norm(97, 100)), 4)]]

-----------------------------------------------------------------------------
(* The requests and the rate provider's answers *)

\* most records the model lets the storage hold
MaxRecords == 7
\* most rates in one answer of the rate provider
MaxFetched == 4
\* number of simulated historical rates the hardcoded variant fits (the
\* source draws 90)
HistoryLen == 3

DaysParams == {Undefined, <<"a", "b", "c">>, <<"0">>, <<"-", "1">>, <<"1">>, <<"2">>}

\* the requests sent to the external variant: every value of days for the
\* default pair, and the pair spelled out in lower case
ExternalQueries ==
  {[from |-> Undefined, to |-> Undefined, days |-> d] : d \in DaysParams}
    \cup {[from |-> <<"u", "s", "d">>, to |-> <<"e", "u", "r">>, days |-> <<"2">>]}

\* the requests sent to the hardcoded variant: every value of days for the
\* default pair, and a listed, an identical and an unlisted pair
HardcodedQueries ==
  {[from |-> Undefined, to |-> Undefined, days |-> d] : d \in DaysParams}
    \cup {[from |-> f, to |-> <<"U", "S", "D">>, days |-> <<"2">>] :
            f \in {<<"e", "u", "r">>, <<"u", "s", "d">>, <<"X", "X", "X">>}}

\* the provider's rate of the day `offset` days from today
ProviderRate(offset) ==
  IF offset = -2 THEN Num(1)
  ELSE IF offset = -4 THEN Norm(26, 25)
  ELSE Norm(51, 50)

\* a successful answer with the rates of the last k days, oldest first
ProviderHistory(today, k) ==
  [result |-> "success",
   conversion_rates |-> [i \in 1..k |-> [date |-> today - k + i - 1,
                                         rate |-> ProviderRate(i - 1 - k)]]]

ProviderAnswers(today) ==
  {[result |-> "error", conversion_rates |-> <<>>]}
    \cup {ProviderHistory(today, k) : k \in 0..MaxFetched}

\* the values Math.random() returns to a forecast of d days: every combination
\* up to MaxDays days; for a longer forecast the first and the last value free
\* and 1/2, which adds no noise, for all the days between
RandomRuns(d) ==
  IF d <= 0 THEN {<<>>}
  ELSE IF d <= MaxDays THEN [1..d -> RandomValues]
  ELSE {[i \in 1..d |-> IF i = 1 THEN a ELSE IF i = d THEN c ELSE Norm(1, 2)] :
          a \in RandomValues, c \in RandomValues}

\* storage.saveExchangeRate for each entry of the answer, in its order
RECURSIVE SaveAll(_, _, _, _)
SaveAll(records, baseCurrency, targetCurrency, entries) ==
  IF entries = <<>> THEN records
  ELSE saveExchangeRate(
         SaveAll(records, baseCurrency, targetCurrency, SubSeq(entries, 1, Len(entries) - 1)),
         Len(records) + Len(entries),
         [baseCurrency |-> baseCurrency, targetCurrency |-> targetCurrency,
          rate |-> entries[Len(entries)].rate, date |-> entries[Len(entries)].date])

RatesOf(s) == [i \in 1..Len(s) |-> s[i].rate]

-----------------------------------------------------------------------------
(* The server's actions.  A handler runs when no request is in progress   *)
(* (op = "none") and leaves its response in status and ret; EndRequest    *)
(* drops the finished request's values.                                   *)

ServerInit ==
  /\ op = "none"
  /\ rates = <<>>
  /\ days = 0
  /\ rnd = <<>>
  /\ ret = NaN
  /\ thrown = "none"
  /\ variant \in {"external", "hardcoded"}
  /\ now = 0
  /\ exchangeRateRecords = <<>>
  /\ exchangeRateId = 1
  /\ query = <<>>
  /\ status = 0
  /\ branch = "none"
  /\ NoRecords
  /\ NoClient

\* the request fails before any forecast is made
Fail(q, code, text, how) ==
  /\ op' = "GET /api/forecast"
  /\ query' = q
  /\ status' = code
  /\ ret' = [message |-> text]
  /\ branch' = how
  /\ thrown' = "none"
  /\ UNCHANGED <<recordVars, clientVars, rates, days, rnd, variant, now, exchangeRateRecords, exchangeRateId>>

\* the rates storage.getExchangeRates returns to the handler for its 90 days
StoredRates(q) ==
  LET historicalDays == 90
  IN getExchangeRates(exchangeRateRecords, CurrencyOf(q.from, "USD"),
                      CurrencyOf(q.to, "EUR"), historicalDays, now)

\* fewer than 7 stored rates, and the provider answers with its history: every
\* rate of the answer is saved and the forecast is made from the answer
Fetched(q, data) ==
  LET baseCurrency == CurrencyOf(q.from, "USD")
      targetCurrency == CurrencyOf(q.to, "EUR")
      d == ParseDays(q.days)
      conversionRates == data.conversion_rates
      historicalRates == RatesOf(conversionRates)
  IN /\ Len(exchangeRateRecords) + Len(conversionRates) <= MaxRecords
     /\ \E r \in RandomRuns(d) :
          /\ exchangeRateRecords' =
               SaveAll(exchangeRateRecords, baseCurrency, targetCurrency, conversionRates)
          /\ exchangeRateId' = exchangeRateId + Len(conversionRates)
          /\ op' = "GET /api/forecast"
          /\ query' = q
          /\ rates' = historicalRates
          /\ days' = d
          /\ rnd' = r
          /\ status' = 200
          /\ ret' = ExternalBody(generateForecast(historicalRates, d, r), now)
          /\ branch' = "fetched"
          /\ thrown' = "none"
          /\ UNCHANGED <<recordVars, clientVars, variant, now>>

\* at least 7 stored rates: the forecast is made from them
Stored(q) ==
  LET d == ParseDays(q.days)
      historicalRates == RatesOf(StoredRates(q))
  IN \E r \in RandomRuns(d) :
       /\ op' = "GET /api/forecast"
       /\ query' = q
       /\ rates' = historicalRates
       /\ days' = d
       /\ rnd' = r
       /\ status' = 200
       /\ ret' = ExternalBody(generateForecast(historicalRates, d, r), now)
       /\ branch' = "stored"
       /\ thrown' = "none"
       /\ UNCHANGED <<recordVars, clientVars, variant, now, exchangeRateRecords, exchangeRateId>>

\* server/routes.ts, GET /api/forecast
ForecastExternal ==
  /\ variant = "external"
  /\ op = "none"
  /\ \E q \in ExternalQueries :
       \/ /\ Len(StoredRates(q)) < 7
          /\ Fail(q, 500, "Failed to generate forecast", "fetch threw")
       \/ /\ Len(StoredRates(q)) < 7
          /\ \E data \in ProviderAnswers(now) :
               /\ data.result # "success"
               /\ Fail(q, 400, "Failed to get historical data for forecasting",
                       "provider error")
       \/ /\ Len(StoredRates(q)) < 7
          /\ \E data \in ProviderAnswers(now) :
               /\ data.result = "success"
               /\ Fetched(q, data)
       \/ /\ Len(StoredRates(q)) >= 7
          /\ Stored(q)

\* the hardcoded variant, GET /api/forecast
ForecastHardcoded ==
  /\ variant = "hardcoded"
  /\ op = "none"
  /\ \E q \in HardcodedQueries :
       LET baseCurrency == CurrencyOf(q.from, "USD")
           targetCurrency == CurrencyOf(q.to, "EUR")
           d == ParseDays(q.days)
           baseRate == BaseRate(baseCurrency, targetCurrency)
       IN \E h \in [1..HistoryLen -> SimulationRandomValues], c \in RandomValues :
            \E r \in RandomRuns(d) :
              LET historicalRates == SimulatedHistory(baseRate, h)
                  forecastRates == generateForecast(historicalRates, d, r)
              IN /\ op' = "GET /api/forecast"
                 /\ query' = q
                 /\ rates' = historicalRates
                 /\ days' = d
                 /\ rnd' = r
                 /\ status' = 200
                 /\ ret' = HardcodedBody(forecastRates, now, baseRate, c)
                 /\ branch' = "hardcoded"
                 /\ thrown' = "none"
                 /\ UNCHANGED <<recordVars, clientVars, variant, now, exchangeRateRecords, exchangeRateId>>

\* the response is sent: the finished request's values are dropped
EndRequest ==
  /\ op # "none"
  /\ op' = "none"
  /\ rates' = <<>>
  /\ days' = 0
  /\ rnd' = <<>>
  /\ ret' = NaN
  /\ thrown' = "none"
  /\ query' = <<>>
  /\ status' = 0
  /\ branch' = "none"
  /\ UNCHANGED <<recordVars, clientVars, variant, now, exchangeRateRecords, exchangeRateId>>

ServerNext ==
  \/ ForecastExternal
  \/ ForecastHardcoded
  \/ EndRequest

ServerSpec == ServerInit /\ [][ServerNext]_vars

-----------------------------------------------------------------------------
(* GET /api/historical *)

\* most records the simulated histories of the hardcoded variant add to the
\* storage
MaxSimulated == 4

\* the statistics block with the volatility as computed, not rounded
HistoricalStatisticsUnrounded(rateValues) ==
  LET avg == Div(SumSeq(rateValues), Num(Len(rateValues)))
      min == MinSeq(rateValues)
      max == MaxSeq(rateValues)
      volatility == Mul(Div(Sub(max, min), avg), Num(100))
  IN [average |-> avg, min |-> min, max |-> max, volatility |-> volatility]

\* the statistics block of the response: the average, the least and the
\* greatest rate, and parseFloat(volatility.toFixed(2))
HistoricalStatistics(rateValues) ==
  LET avg == Div(SumSeq(rateValues), Num(Len(rateValues)))
      min == MinSeq(rateValues)
      max == MaxSeq(rateValues)
      volatility == Mul(Div(Sub(max, min), avg), Num(100))
  IN [average |-> avg, min |-> min, max |-> max, volatility |-> ToFixed(volatility, 2)]

\* the body of the response: the rates with their dates, and the statistics
HistoricalBody(entries) ==
  [rates |-> [i \in 1..Len(entries) |-> [date |-> entries[i].date, rate |-> entries[i].rate]],
   statistics |-> HistoricalStatistics(RatesOf(entries))]

\* the requests sent to GET /api/historical: every value of days for the
\* default pair, and a pair spelled out in lower case
HistoricalQueries ==
  {[from |-> Undefined, to |-> Undefined, days |-> d] : d \in DaysParams}
    \cup {[from |-> <<"e", "u", "r">>, to |-> <<"u", "s", "d">>, days |-> <<"2">>]}

\* the requests sent to the hardcoded variant's GET /api/historical: those, an
\* identical pair and a pair with a currency that is not in the table
HardcodedHistoricalQueries ==
  HistoricalQueries
    \cup {[from |-> <<"U", "S", "D">>, to |-> <<"U", "S", "D">>, days |-> <<"1">>],
          [from |-> <<"X", "X", "X">>, to |-> Undefined, days |-> <<"1">>]}

\* the simulated rates with the jitter of the simulated forecast history
SimulatedRatesWide(baseRate, d, r, today) ==
  [j \in 1..(IF d > 0 THEN d ELSE 0) |->
     [date |-> today - (d - j),
      rate |-> Add(baseRate, Mul(Mul(Sub(r[j], Norm(1, 2)), Norm(6, 100)), baseRate))]]

\* for (i = days - 1; i >= 0; i--): the day today - i with the rate
\* baseRate + (Math.random() - 0.5) * 0.02 * baseRate
SimulatedRates(baseRate, d, r, today) ==
  [j \in 1..(IF d > 0 THEN d ELSE 0) |->
     [date |-> today - (d - j),
      rate |-> Add(baseRate, Mul(Mul(Sub(r[j], Norm(1, 2)), Norm(2, 100)), baseRate))]]

\* the request fails before any statistics are made
FailHistorical(q, code, text, how) ==
  /\ op' = "GET /api/historical"
  /\ query' = q
  /\ status' = code
  /\ ret' = [message |-> text]
  /\ branch' = how
  /\ thrown' = "none"
  /\ UNCHANGED <<recordVars, clientVars, rates, days, rnd, variant, now, exchangeRateRecords, exchangeRateId>>

\* the rates storage.getExchangeRates returns to the handler for its days
StoredHistory(q) ==
  getExchangeRates(exchangeRateRecords, CurrencyOf(q.from, "USD"),
                   CurrencyOf(q.to, "EUR"), ParseDays(q.days), now)

\* fewer stored rates than days, and the provider answers with its history:
\* every rate of the answer is saved, and the answer is summarised
FetchedHistory(q, data) ==
  LET baseCurrency == CurrencyOf(q.from, "USD")
      targetCurrency == CurrencyOf(q.to, "EUR")
      conversionRates == data.conversion_rates
  IN /\ Len(exchangeRateRecords) + Len(conversionRates) <= MaxRecords
     /\ exchangeRateRecords' =
          SaveAll(exchangeRateRecords, baseCurrency, targetCurrency, conversionRates)
     /\ exchangeRateId' = exchangeRateId + Len(conversionRates)
     /\ op' = "GET /api/historical"
     /\ query' = q
     /\ rates' = RatesOf(conversionRates)
     /\ days' = ParseDays(q.days)
     /\ rnd' = <<>>
     /\ status' = 200
     /\ ret' = HistoricalBody(conversionRates)
     /\ branch' = "fetched"
     /\ thrown' = "none"
     /\ UNCHANGED <<recordVars, clientVars, variant, now>>

\* at least days stored rates: they are summarised
StoredHistoryAnswer(q) ==
  /\ op' = "GET /api/historical"
  /\ query' = q
  /\ rates' = RatesOf(StoredHistory(q))
  /\ days' = ParseDays(q.days)
  /\ rnd' = <<>>
  /\ status' = 200
  /\ ret' = HistoricalBody(StoredHistory(q))
  /\ branch' = "stored"
  /\ thrown' = "none"
  /\ UNCHANGED <<recordVars, clientVars, variant, now, exchangeRateRecords, exchangeRateId>>

\* server/routes.ts, GET /api/historical
HistoricalExternal ==
  /\ variant = "external"
  /\ op = "none"
  /\ \E q \in HistoricalQueries :
       \/ /\ Len(StoredHistory(q)) < ParseDays(q.days)
          /\ FailHistorical(q, 500, "Failed to fetch historical rates", "fetch threw")
       \/ /\ Len(StoredHistory(q)) < ParseDays(q.days)
          /\ \E data \in ProviderAnswers(now) :
               /\ data.result # "success"
               /\ FailHistorical(q, 400, "Failed to get historical rates", "provider error")
       \/ /\ Len(StoredHistory(q)) < ParseDays(q.days)
          /\ \E data \in ProviderAnswers(now) :
               /\ data.result = "success"
               /\ FetchedHistory(q, data)
       \/ /\ Len(StoredHistory(q)) >= ParseDays(q.days)
          /\ StoredHistoryAnswer(q)

\* the hardcoded variant, GET /api/historical: days simulated rates, each
\* saved to the storage, and their statistics
HistoricalHardcoded ==
  /\ variant = "hardcoded"
  /\ op = "none"
  /\ \E q \in HardcodedHistoricalQueries :
       LET baseCurrency == CurrencyOf(q.from, "USD")
           targetCurrency == CurrencyOf(q.to, "EUR")
           d == ParseDays(q.days)
           baseRate == BaseRate(baseCurrency, targetCurrency)
       IN /\ Len(exchangeRateRecords) + (IF d > 0 THEN d ELSE 0) <= MaxSimulated
          /\ \E r \in [1..(IF d > 0 THEN d ELSE 0) -> SimulationRandomValues] :
               LET entries == SimulatedRates(baseRate, d, r, now)
               IN /\ exchangeRateRecords' =
                       SaveAll(exchangeRateRecords, baseCurrency, targetCurrency, entries)
                  /\ exchangeRateId' = exchangeRateId + Len(entries)
                  /\ op' = "GET /api/historical"
                  /\ query' = q
                  /\ rates' = RatesOf(entries)
                  /\ days' = d
                  /\ rnd' = r
                  /\ status' = 200
                  /\ ret' = HistoricalBody(entries)
                  /\ branch' = "hardcoded"
                  /\ thrown' = "none"
                  /\ UNCHANGED <<recordVars, clientVars, variant, now>>

\* The summarizers of the system: calculateStatistics called on a series, and
\* the two variants of GET /api/historical.
SummaryInit ==
  \/ Init
  \/ ServerInit

SummaryNext ==
  \/ CallCalculateStatistics
  \/ HistoricalExternal
  \/ HistoricalHardcoded
  \/ EndRequest

SummarySpec == SummaryInit /\ [][SummaryNext]_vars

-----------------------------------------------------------------------------
(* MemStorage on its own: any sequence of calls of its methods.  Every    *)
(* method is async without an await, so a call runs to its end before the *)
(* next one starts, whatever the callers interleave.                      *)

\* the total number of records saved
MaxSaves == 3
\* the last tick of the clock
MaxClock == 1

Usernames == {"alice", "bob"}
StoredPairs == {<<"USD", "EUR">>, <<"EUR", "USD">>}
\* the dates saved: yesterday's and today's
SavedDates(today) == {today - 1, today}
Windows == {0, 1}
Limits == {None, Some(NaN), Some(Num(-1)), Some(Num(0)), Some(Num(1))}
LimitParams == {Undefined, <<"0">>, <<"-", "1">>, <<"1">>}
\* the ids asked for: one never given, and the first two
UserIds == {0, 1, 2}

StorageInit ==
  /\ ServerInit
  /\ variant = "external"

CanSave == (userId - 1) + (conversionId - 1) + (exchangeRateId - 1) < MaxSaves

\* the call's name, arguments and resolved value
StorageCall(method, arguments, resolved) ==
  /\ op' = method
  /\ args' = arguments
  /\ ret' = resolved
  /\ UNCHANGED <<rates, days, rnd, thrown, variant, query, status, branch, clientVars>>

CreateUser ==
  /\ CanSave
  /\ \E name \in Usernames :
       LET insertUser == [username |-> name, password |-> "secret"]
       IN /\ users' = createUser(users, userId, insertUser)
          /\ userId' = Increment(userId)
          /\ StorageCall("createUser", <<insertUser>>,
                         [id |-> userId, username |-> name, password |-> "secret"])
  /\ UNCHANGED <<now, conversionRecords, conversionId, exchangeRateRecords, exchangeRateId>>

SaveConversion ==
  /\ CanSave
  /\ LET insertConversion == [amount |-> Num(1), fromCurrency |-> "USD",
                              toCurrency |-> "EUR", rate |-> Norm(9, 10),
                              result |-> Norm(9, 10)]
     IN /\ conversionRecords' =
             saveConversion(conversionRecords, conversionId, insertConversion, now)
        /\ conversionId' = Increment(conversionId)
        /\ StorageCall("saveConversion", <<insertConversion>>,
                       [id |-> conversionId, amount |-> Num(1), fromCurrency |-> "USD",
                        toCurrency |-> "EUR", rate |-> Norm(9, 10),
                        result |-> Norm(9, 10), createdAt |-> now])
  /\ UNCHANGED <<now, users, userId, exchangeRateRecords, exchangeRateId>>

SaveExchangeRate ==
  /\ CanSave
  /\ \E pair \in StoredPairs, day \in SavedDates(now) :
       LET insertRate == [baseCurrency |-> pair[1], targetCurrency |-> pair[2],
                          rate |-> Norm(9, 10), date |-> day]
       IN /\ exchangeRateRecords' =
               saveExchangeRate(exchangeRateRecords, exchangeRateId, insertRate)
          /\ exchangeRateId' = Increment(exchangeRateId)
          /\ StorageCall("saveExchangeRate", <<insertRate>>,
                         [id |-> exchangeRateId, baseCurrency |-> pair[1],
                          targetCurrency |-> pair[2], rate |-> Norm(9, 10),
                          date |-> day])
  /\ UNCHANGED <<now, users, userId, conversionRecords, conversionId>>

Records == <<users, userId, conversionRecords, conversionId,
             exchangeRateRecords, exchangeRateId>>

GetUser ==
  /\ \E id \in UserIds :
       StorageCall("getUser", <<id>>, getUser(users, id))
  /\ UNCHANGED <<now, Records>>

GetUserByUsername ==
  /\ \E name \in Usernames :
       StorageCall("getUserByUsername", <<name>>, getUserByUsername(users, name))
  /\ UNCHANGED <<now, Records>>

GetConversions ==
  /\ \E limit \in Limits :
       StorageCall("getConversions", <<limit>>, getConversions(conversionRecords, limit))
  /\ UNCHANGED <<now, Records>>

GetExchangeRates ==
  /\ \E pair \in StoredPairs, d \in Windows :
       StorageCall("getExchangeRates", <<pair[1], pair[2], d>>,
                   getExchangeRates(exchangeRateRecords, pair[1], pair[2], d, now))
  /\ UNCHANGED <<now, Records>>

GetLatestExchangeRate ==
  /\ \E pair \in StoredPairs :
       StorageCall("getLatestExchangeRate", <<pair[1], pair[2]>>,
                   getLatestExchangeRate(exchangeRateRecords, pair[1], pair[2]))
  /\ UNCHANGED <<now, Records>>

\* server/routes.ts, GET /api/conversions:
\* limit = req.query.limit ? parseInt(req.query.limit) : undefined
ConversionsRoute ==
  /\ \E param \in LimitParams :
       LET limit == IF param = Undefined \/ param = <<>> THEN None
                    ELSE Some(ParseInt(param))
       IN StorageCall("GET /api/conversions", <<param>>,
                      getConversions(conversionRecords, limit))
  /\ UNCHANGED <<now, Records>>

\* time passes
Tick ==
  /\ now < MaxClock
  /\ now' = now + 1
  /\ UNCHANGED <<callVars, variant, exchangeRateRecords, exchangeRateId, query,
                 status, branch, recordVars, clientVars>>

StorageNext ==
  \/ CreateUser
  \/ SaveConversion
  \/ SaveExchangeRate
  \/ GetUser
  \/ GetUserByUsername
  \/ GetConversions
  \/ GetExchangeRates
  \/ GetLatestExchangeRate
  \/ ConversionsRoute
  \/ Tick

StorageSpec == StorageInit /\ [][StorageNext]_vars

-----------------------------------------------------------------------------
(* client/src/components/CurrencyConverter.tsx with the server's          *)
(* POST /api/conversions.  The component is mounted; its /api/rate query  *)
(* is loading.                                                            *)

\* most executions of saveMutation that have not settled
MaxPending == 2
\* most toasts shown
MaxToasts == 3

Currencies == {"USD", "EUR"}
Amounts == {0, 1}

ConverterInit == StorageInit

\* what the component's actions leave alone, its own state apart
ConverterFrame ==
  UNCHANGED <<callVars, serverVars, users, userId, args, chartVars>>

\* the /api/rate query of the current pair succeeds
RateQuerySucceeds ==
  /\ rateLoading
  /\ rateData' = Some([rate |-> BaseRate(fromCurrency, toCurrency),
                       baseCurrency |-> fromCurrency,
                       targetCurrency |-> toCurrency])
  /\ rateLoading' = FALSE
  /\ UNCHANGED <<amount, fromCurrency, toCurrency, pending, posts, toasts,
                 invalidations, conversionRecords, conversionId>>
  /\ ConverterFrame

\* the /api/rate query fails: no data, and no longer loading
RateQueryFails ==
  /\ rateLoading
  /\ rateData' = None
  /\ rateLoading' = FALSE
  /\ UNCHANGED <<amount, fromCurrency, toCurrency, pending, posts, toasts,
                 invalidations, conversionRecords, conversionId>>
  /\ ConverterFrame

\* handleAmountChange: setAmount(isNaN(value) ? 0 : value)
HandleAmountChange ==
  /\ \E value \in Amounts : amount' = value
  /\ UNCHANGED <<fromCurrency, toCurrency, rateData, rateLoading, pending, posts,
                 toasts, invalidations, conversionRecords, conversionId>>
  /\ ConverterFrame

\* the pair changes: the query key changes, and the new query has no data yet
PairBecomes(newFrom, newTo) ==
  /\ <<newFrom, newTo>> # <<fromCurrency, toCurrency>>
  /\ fromCurrency' = newFrom
  /\ toCurrency' = newTo
  /\ rateData' = None
  /\ rateLoading' = TRUE
  /\ UNCHANGED <<amount, pending, posts, toasts, invalidations,
                 conversionRecords, conversionId>>
  /\ ConverterFrame

HandleFromCurrencyChange == \E value \in Currencies : PairBecomes(value, toCurrency)

HandleToCurrencyChange == \E value \in Currencies : PairBecomes(fromCurrency, value)

HandleSwapCurrencies == PairBecomes(toCurrency, fromCurrency)

\* handleConvertAndSave: saveMutation.mutate() runs mutationFn, which returns
\* null without a request when there is no rateData, and sends the POST
\* otherwise.  The button is disabled while the rate is loading.
HandleConvertAndSave ==
  /\ ~rateLoading
  /\ Len(pending) < MaxPending
  /\ Len(toasts) + Len(pending) < MaxToasts
  /\ IF rateData = None
       THEN /\ pending' = Append(pending, [returned |-> "null"])
            /\ posts' = posts
       ELSE /\ pending' = Append(pending,
                 [returned |-> "request",
                  body |-> [amount |-> Num(amount),
                            fromCurrency |-> fromCurrency,
                            toCurrency |-> toCurrency,
                            rate |-> rateData[1].rate,
                            result |-> Mul(Num(amount), rateData[1].rate)]])
            /\ posts' = posts + 1
  /\ UNCHANGED <<amount, fromCurrency, toCurrency, rateData, rateLoading, toasts,
                 invalidations, conversionRecords, conversionId>>
  /\ ConverterFrame

\* the pending executions without the i-th
Settled(i) == SubSeq(pending, 1, i - 1) \o SubSeq(pending, i + 1, Len(pending))

\* onSuccess: the toast, and the conversions query is invalidated
OnSuccess ==
  /\ toasts' = Append(toasts, "Conversion saved")
  /\ invalidations' = invalidations + 1

\* onError: the destructive toast
OnError ==
  /\ toasts' = Append(toasts, "Error")
  /\ invalidations' = invalidations

\* the server saves the conversion and answers 201: the mutation succeeds
PostSucceeds ==
  /\ \E i \in 1..Len(pending) :
       /\ pending[i].returned = "request"
       /\ conversionRecords' =
            saveConversion(conversionRecords, conversionId, pending[i].body, now)
       /\ conversionId' = Increment(conversionId)
       /\ pending' = Settled(i)
       /\ OnSuccess
  /\ UNCHANGED <<amount, fromCurrency, toCurrency, rateData, rateLoading, posts>>
  /\ ConverterFrame

\* the request fails or the server answers 400 or 500: apiRequest throws
PostFails ==
  /\ \E i \in 1..Len(pending) :
       /\ pending[i].returned = "request"
       /\ pending' = Settled(i)
       /\ OnError
  /\ UNCHANGED <<amount, fromCurrency, toCurrency, rateData, rateLoading, posts,
                 conversionRecords, conversionId>>
  /\ ConverterFrame

\* mutationFn returned null: the mutation succeeds with the value null
NullSettles ==
  /\ \E i \in 1..Len(pending) :
       /\ pending[i].returned = "null"
       /\ pending' = Settled(i)
       /\ OnSuccess
  /\ UNCHANGED <<amount, fromCurrency, toCurrency, rateData, rateLoading, posts,
                 conversionRecords, conversionId>>
  /\ ConverterFrame

ConverterNext ==
  \/ RateQuerySucceeds
  \/ RateQueryFails
  \/ HandleAmountChange
  \/ HandleFromCurrencyChange
  \/ HandleToCurrencyChange
  \/ HandleSwapCurrencies
  \/ HandleConvertAndSave
  \/ PostSucceeds
  \/ PostFails
  \/ NullSettles

ConverterSpec == ConverterInit /\ [][ConverterNext]_vars

-----------------------------------------------------------------------------
(* ForecastChart.tsx and HistoricalRatesChart.tsx: the effect that draws   *)
(* the chart.  Both components run the same effect on [data, fromCurrency, *)
(* toCurrency].  React commits a render in steps: the cleanup the previous *)
(* run of the effect returned, if it returned one, then the effect; on     *)
(* unmount the cleanup alone.                                              *)

\* most Chart instances constructed
MaxCharts == 3

\* the query's data: undefined, a response with an empty list, and two
\* different responses with rates
QueryResults == {[loading |-> TRUE, data |-> "undefined"],
                 [loading |-> FALSE, data |-> "undefined"],
                 [loading |-> FALSE, data |-> "empty"],
                 [loading |-> FALSE, data |-> "first"],
                 [loading |-> FALSE, data |-> "second"]}

Pairs == {<<"USD", "EUR">>, <<"EUR", "USD">>}

ChartInit == StorageInit

ChartFrame == UNCHANGED <<callVars, serverVars, recordVars, converterVars>>

\* data?.forecast?.length, data?.rates?.length
HasLength(d) == d \in {"first", "second"}

\* chartRef.current: the canvas is rendered unless the query is loading
ChartRef(c) == IF mounted[c] /\ ~isLoading[c] THEN "canvas" ELSE "null"

\* chart.destroy()
Destroy(all, chart) ==
  [i \in 1..Len(all) |-> IF i = chart THEN [all[i] EXCEPT !.destroyed = TRUE] ELSE all[i]]

\* the component is mounted: new refs, the first render, the effect is due
Mount(c) ==
  /\ ~mounted[c]
  /\ phase[c] = "idle"
  /\ Len(charts) < MaxCharts
  /\ \E result \in QueryResults, pair \in Pairs :
       /\ isLoading' = [isLoading EXCEPT ![c] = result.loading]
       /\ queryData' = [queryData EXCEPT ![c] = result.data]
       /\ currencyPair' = [currencyPair EXCEPT ![c] = pair]
  /\ mounted' = [mounted EXCEPT ![c] = TRUE]
  /\ chartInstance' = [chartInstance EXCEPT ![c] = Null]
  /\ effectCleanup' = [effectCleanup EXCEPT ![c] = FALSE]
  /\ phase' = [phase EXCEPT ![c] = "effect"]
  /\ UNCHANGED charts
  /\ ChartFrame

\* the component renders again with another query result or other props; the
\* effect is due when one of its dependencies changed
Render(c) ==
  /\ mounted[c]
  /\ phase[c] = "idle"
  /\ Len(charts) < MaxCharts
  /\ \E result \in QueryResults, pair \in Pairs :
       /\ <<result.loading, result.data, pair>> #
            <<isLoading[c], queryData[c], currencyPair[c]>>
       /\ isLoading' = [isLoading EXCEPT ![c] = result.loading]
       /\ queryData' = [queryData EXCEPT ![c] = result.data]
       /\ currencyPair' = [currencyPair EXCEPT ![c] = pair]
       /\ phase' = [phase EXCEPT ![c] =
                      IF <<result.data, pair>> # <<queryData[c], currencyPair[c]>>
                        THEN "cleanup" ELSE "idle"]
  /\ UNCHANGED <<mounted, chartInstance, effectCleanup, charts>>
  /\ ChartFrame

\* the component is removed
Unmount(c) ==
  /\ mounted[c]
  /\ phase[c] = "idle"
  /\ phase' = [phase EXCEPT ![c] = "unmounting"]
  /\ UNCHANGED <<mounted, queryData, isLoading, currencyPair, chartInstance,
                 effectCleanup, charts>>
  /\ ChartFrame

\* the cleanup forgetting the chart without destroying it
RunCleanupWithoutDestroy(c) ==
  /\ phase[c] \in {"cleanup", "unmounting"}
  /\ chartInstance' = [chartInstance EXCEPT ![c] = IF effectCleanup[c] THEN Null ELSE @]
  /\ effectCleanup' = [effectCleanup EXCEPT ![c] = FALSE]
  /\ mounted' = [mounted EXCEPT ![c] = phase[c] # "unmounting"]
  /\ phase' = [phase EXCEPT ![c] = IF phase[c] = "cleanup" THEN "effect" ELSE "idle"]
  /\ UNCHANGED <<queryData, isLoading, currencyPair, charts>>
  /\ ChartFrame

\* React runs the cleanup the last run of the effect returned, if any:
\* if (chartInstance.current) { chartInstance.current.destroy();
\* chartInstance.current = null; }
RunCleanup(c) ==
  /\ phase[c] \in {"cleanup", "unmounting"}
  /\ IF effectCleanup[c] /\ chartInstance[c] # Null
       THEN /\ charts' = Destroy(charts, chartInstance[c])
            /\ chartInstance' = [chartInstance EXCEPT ![c] = Null]
       ELSE UNCHANGED <<charts, chartInstance>>
  /\ effectCleanup' = [effectCleanup EXCEPT ![c] = FALSE]
  /\ mounted' = [mounted EXCEPT ![c] = phase[c] # "unmounting"]
  /\ phase' = [phase EXCEPT ![c] = IF phase[c] = "cleanup" THEN "effect" ELSE "idle"]
  /\ UNCHANGED <<queryData, isLoading, currencyPair>>
  /\ ChartFrame

\* the effect returns early: no canvas, no rates, or no 2d context
EffectReturnsEarly(c) ==
  /\ phase[c] = "effect"
  /\ \E ctx \in {"context", "null"} :
       \/ ChartRef(c) = "null"
       \/ ~HasLength(queryData[c])
       \/ ctx = "null"
  /\ effectCleanup' = [effectCleanup EXCEPT ![c] = FALSE]
  /\ phase' = [phase EXCEPT ![c] = "idle"]
  /\ UNCHANGED <<mounted, queryData, isLoading, currencyPair, chartInstance, charts>>
  /\ ChartFrame

\* the effect destroys the chart the ref still holds, constructs the new
\* Chart, stores it in the ref and returns its cleanup
EffectDrawsChart(c) ==
  /\ phase[c] = "effect"
  /\ ChartRef(c) # "null"
  /\ HasLength(queryData[c])
  /\ LET kept == IF chartInstance[c] # Null THEN Destroy(charts, chartInstance[c])
                 ELSE charts
     IN /\ charts' = Append(kept, [component |-> c, destroyed |-> FALSE])
        /\ chartInstance' = [chartInstance EXCEPT ![c] = Len(kept) + 1]
  /\ effectCleanup' = [effectCleanup EXCEPT ![c] = TRUE]
  /\ phase' = [phase EXCEPT ![c] = "idle"]
  /\ UNCHANGED <<mounted, queryData, isLoading, currencyPair>>
  /\ ChartFrame

ChartNext ==
  \E c \in Components :
    \/ Mount(c)
    \/ Render(c)
    \/ Unmount(c)
    \/ RunCleanup(c)
    \/ EffectReturnsEarly(c)
    \/ EffectDrawsChart(c)

ChartSpec == ChartInit /\ [][ChartNext]_vars

-----------------------------------------------------------------------------
(* What the properties are stated with *)

\* the sum of f[0], ..., f[n-1]
RECURSIVE Sigma(_, _)
Sigma(f, n) == IF n = 0 THEN Num(0) ELSE Add(f[n - 1], Sigma(f, n - 1))

\* y[i] for the position i = 0..n-1 of the series
At(y, i) == y[i + 1]

\* the closed form of the least-squares slope and intercept of the points (i, y[i])
LsqSlope(y) ==
  LET n == Len(y)
      Sx == Sigma([i \in 0..n-1 |-> Num(i)], n)
      Sy == Sigma([i \in 0..n-1 |-> At(y, i)], n)
      Sxy == Sigma([i \in 0..n-1 |-> Mul(Num(i), At(y, i))], n)
      Sxx == Sigma([i \in 0..n-1 |-> Num(i * i)], n)
  IN Div(Sub(Mul(Num(n), Sxy), Mul(Sx, Sy)), Sub(Mul(Num(n), Sxx), Mul(Sx, Sx)))

LsqIntercept(y) ==
  LET n == Len(y)
      Sx == Sigma([i \in 0..n-1 |-> Num(i)], n)
      Sy == Sigma([i \in 0..n-1 |-> At(y, i)], n)
  IN Div(Sub(Sy, Mul(LsqSlope(y), Sx)), Num(n))

\* the normal equations of the line slope * i + intercept through the points
\* (i, y[i]): the residuals sum to 0, and so do the residuals weighted by i
NormalEquations(y, slope, intercept) ==
  LET n == Len(y)
      res == [i \in 0..n-1 |-> Sub(At(y, i), Add(Mul(slope, Num(i)), intercept))]
  IN /\ Sigma(res, n) = Num(0)
     /\ Sigma([i \in 0..n-1 |-> Mul(Num(i), res[i])], n) = Num(0)

\* |a - b| <= eps
Within(a, b, eps) == Le(AbsOf(Sub(a, b)), eps)

IsConstant(y) == \A i \in 1..Len(y) : y[i] = y[1]

\* y[i] = a + d * i with a = y[0] and d = y[1] - y[0]
LinearStep(y) == Sub(y[2], y[1])
IsLinear(y) ==
  /\ Len(y) >= 2
  /\ \A i \in 1..Len(y) : y[i] = Add(y[1], Mul(LinearStep(y), Num(i - 1)))

-----------------------------------------------------------------------------
(* Properties *)

\* C1: for every series of length n >= 2, linearRegression returns the closed-form
\* least-squares slope (n*Sxy - Sx*Sy) / (n*Sxx - Sx^2) and intercept
\* (Sy - slope*Sx) / n over the positions 0..n-1, and that line satisfies the
\* normal equations of the least-squares problem.
C1_ClosedFormLeastSquares ==
  (op = "linearRegression" /\ Len(rates) >= 2) =>
    /\ ret.slope = LsqSlope(rates)
    /\ ret.intercept = LsqIntercept(rates)
    /\ IsFinite(ret.slope) /\ IsFinite(ret.intercept)
    /\ NormalEquations(rates, ret.slope, ret.intercept)

\* a fit of three points that are not on one line, with a slope that is no integer
C1_Witness ==
  /\ op = "linearRegression"
  /\ Len(rates) >= 3
  /\ ~IsLinear(rates)
  /\ IsFinite(ret.slope) /\ ret.slope.d > 1

\* C2: linearRegression and generateForecast, called with fewer than 2 rates, fail
\* with an InvalidInput error instead of returning a result.
C2_ShortSeriesRaisesInvalidInput ==
  (op \in {"linearRegression", "generateForecast"} /\ Len(rates) < 2) =>
    thrown = "InvalidInput"

\* C3: calculateStatistics, called with an empty series, fails with an InvalidInput
\* error instead of returning average, min, max and volatility.
C3_EmptySeriesRaisesInvalidInput ==
  (op = "calculateStatistics" /\ Len(rates) = 0) => thrown = "InvalidInput"

\* C4: for every constant series of length >= 2, calculateConfidence returns 95
\* and never NaN.
C4_ConstantSeriesConfidence95 ==
  (op = "calculateConfidence" /\ Len(rates) >= 2 /\ IsConstant(rates)) =>
    ret = Num(95)

\* C5: for every non-constant series of length >= 3, the value calculateConfidence
\* returns lies in [50, 95].
C5_ConfidenceWithinBounds ==
  (op = "calculateConfidence" /\ Len(rates) >= 3 /\ ~IsConstant(rates)) =>
    Le(Num(50), ret) /\ Le(ret, Num(95))

\* a confidence strictly between the two limits, and one at the lower limit
C5_Witness ==
  /\ op = "calculateConfidence"
  /\ Len(rates) >= 3
  /\ ~IsConstant(rates)
  /\ Lt(Num(50), ret) /\ Lt(ret, Num(95))

\* C6: for every series of length n >= 2 and every horizon days >= 1,
\* generateForecast returns exactly `days` values, and the value at position i
\* differs from slope*(n+i) + intercept of the fitted line by at most 0.001.
C6_ForecastContinuesTheLine ==
  (op = "generateForecast" /\ Len(rates) >= 2) =>
    /\ Len(ret) = days
    /\ \A i \in 0..days-1 :
         Within(At(ret, i),
                Add(Mul(LsqSlope(rates), Num(Len(rates) + i)), LsqIntercept(rates)),
                Norm(1, 1000))

\* a forecast of several days along a rising line, one point a full 0.001 below it
C6_Witness ==
  /\ op = "generateForecast"
  /\ Len(rates) >= 3
  /\ days >= 2
  /\ Gt(LsqSlope(rates), Num(0))
  /\ \E i \in 0..days-1 :
       Sub(Add(Mul(LsqSlope(rates), Num(Len(rates) + i)), LsqIntercept(rates)),
           At(ret, i)) = Norm(1, 1000)

\* C7: for every rate v, the series [v, v] yields slope 0 and intercept v from
\* linearRegression, forecast points all within 0.002 of v, and direction
\* 'stable' from analyzeTrend.
C7_TwoIdenticalPoints ==
  (Len(rates) = 2 /\ rates[1] = rates[2]) =>
    /\ op = "linearRegression" => ret.slope = Num(0) /\ ret.intercept = rates[1]
    /\ op = "generateForecast" =>
         \A i \in 1..Len(ret) : Within(ret[i], rates[1], Norm(2, 1000))
    /\ op = "analyzeTrend" => ret.direction = "stable"

\* a forecast from two identical points that the noise moved off v
C7_Witness ==
  /\ Len(rates) = 2 /\ rates[1] = rates[2]
  /\ op = "generateForecast"
  /\ days >= 2
  /\ \E i \in 1..Len(ret) : ret[i] # rates[1]

C9_TrendOfSlopeAndEndpoints ==
  (op = "analyzeTrend" /\ Len(rates) >= 2) =>
    LET first == rates[1]
        last == rates[Len(rates)]
        slope == LsqSlope(rates)
    IN /\ ret.percentChange = Mul(Div(Sub(last, first), first), Num(100))
       /\ (IsFinite(first) /\ first # Num(0)) =>
            Mul(ret.percentChange, first) = Mul(Sub(last, first), Num(100))
       /\ ret.direction = "up" <=> Gt(slope, Norm(1, 10000))
       /\ ret.direction = "down" <=> Lt(slope, Norm(-1, 10000))
       /\ ret.direction = "stable" <=>
            (Le(Norm(-1, 10000), slope) /\ Le(slope, Norm(1, 10000)))

\* a slope of exactly 0.0001, which is 'stable', with a positive percentChange
C9_Witness ==
  /\ op = "analyzeTrend"
  /\ Len(rates) >= 2
  /\ LsqSlope(rates) = Norm(1, 10000)
  /\ ret.direction = "stable"
  /\ Gt(ret.percentChange, Num(0))

\* C10: in the GET /api/forecast handler of every build variant and every
\* branch, the reported direction is 'up' exactly when percentChange > 0.5,
\* 'down' exactly when percentChange < -0.5, and 'stable' otherwise, with
\* percentChange = (last - first) / first * 100 of the forecast rates.
C10_ForecastDirectionThresholds ==
  (op = "GET /api/forecast" /\ status = 200) =>
    LET n == Len(ret.forecast)
        startRate == IF n = 0 THEN NaN ELSE ret.forecast[1].rate
        endRate == IF n = 0 THEN NaN ELSE ret.forecast[n].rate
        percentChange == Mul(Div(Sub(endRate, startRate), startRate), Num(100))
        direction == ret.analysis.direction
    IN /\ direction = "up" <=> Gt(percentChange, Norm(1, 2))
       /\ direction = "down" <=> Lt(percentChange, Norm(-1, 2))
       /\ direction = "stable" <=>
            ~(Gt(percentChange, Norm(1, 2)) \/ Lt(percentChange, Norm(-1, 2)))

\* the calls of the summarizer
IsSummary == op \in {"calculateStatistics", "calculateStatistics in doubles"}

\* the relative error n * u / (1 - n * u) of a sum of n numbers and one
\* division, each rounded with the unit roundoff u = 2^(-Precision)
RoundingError(n) == Div(Num(n), Num(TwoTo(Precision) - n))

\* C11 as stated: for every non-empty constant series [v, ..., v] with v # 0
\* the summarizer returns volatility exactly 0 and average = min = max = v.
C11_ConstantSeriesSummary ==
  (IsSummary /\ Len(rates) >= 1 /\ IsConstant(rates) /\ rates[1] # Num(0)) =>
    /\ ret.volatility = Num(0)
    /\ ret.average = rates[1]
    /\ ret.min = rates[1]
    /\ ret.max = rates[1]

\* C11, amended: for every non-empty constant series [v, ..., v] with v # 0
\* the summarizer returns volatility exactly 0 and min = max = v; the average
\* is v in exact arithmetic and for one or two rates, and in doubles it is v up
\* to the rounding of the sum and of the division.
C11_ConstantSeriesSummaryRounded ==
  (IsSummary /\ Len(rates) >= 1 /\ IsConstant(rates) /\ rates[1] # Num(0)) =>
    /\ ret.volatility = Num(0)
    /\ ret.min = rates[1]
    /\ ret.max = rates[1]
    /\ (op = "calculateStatistics" \/ Len(rates) <= 2) => ret.average = rates[1]
    /\ Within(ret.average, rates[1], Mul(AbsOf(rates[1]), RoundingError(Len(rates))))

\* three equal rates whose rounded sum, divided by three, is not the rate
C11_Witness ==
  /\ op = "calculateStatistics in doubles"
  /\ Len(rates) = 3
  /\ IsConstant(rates)
  /\ ret.volatility = Num(0)
  /\ ret.average # rates[1]

\* C12: given a non-empty series whose average is 0 (rates that sum to zero,
\* all-zero rates), the summarizer fails with InvalidInput and returns no
\* volatility value.
C12_ZeroAverageRaisesInvalidInput ==
  (IsSummary /\ Len(rates) >= 1 /\ SumSeq(rates) = Num(0)) =>
    thrown = "InvalidInput"

\* C13: for every series of length >= 2, a first rate of 0 included, the
\* percentChange analyzeTrend returns is a finite number, and so is the
\* percentChange in the analysis of a GET /api/forecast response: neither NaN
\* nor an Infinity reaches the caller.
C13_PercentChangeIsFinite ==
  /\ (op = "analyzeTrend" /\ Len(rates) >= 2) => IsFinite(ret.percentChange)
  /\ (op = "GET /api/forecast" /\ status = 200) => IsFinite(ret.analysis.percentChange)

\* the arithmetic mean of the series, and (max - min) / mean * 100
Mean(y) == Div(Sigma([i \in 0..(Len(y) - 1) |-> At(y, i)], Len(y)), Num(Len(y)))
Dispersion(y) == Mul(Div(Sub(MaxSeq(y), MinSeq(y)), Mean(y)), Num(100))

\* C14 as stated: every summarizer (the statistics block of GET /api/historical
\* in both variants, and calculateStatistics) reports the arithmetic mean as
\* average and (max - min) / average * 100 rounded to 2 decimal places as
\* volatility.
C14_VolatilityRoundedByEverySummarizer ==
  /\ op = "calculateStatistics" =>
        /\ ret.average = Mean(rates)
        /\ ret.volatility = ToFixed(Dispersion(rates), 2)
  /\ (op = "GET /api/historical" /\ status = 200) =>
        /\ ret.statistics.average = Mean(rates)
        /\ ret.statistics.volatility = ToFixed(Dispersion(rates), 2)

\* C14, amended: every summarizer reports the arithmetic mean as average; the
\* statistics block of GET /api/historical, in both variants, reports
\* (max - min) / average * 100 rounded to 2 decimal places as volatility, and
\* calculateStatistics reports it as computed, without rounding.
C14_VolatilityRoundedByTheServer ==
  /\ op = "calculateStatistics" =>
        /\ ret.average = Mean(rates)
        /\ ret.volatility = Dispersion(rates)
  /\ (op = "GET /api/historical" /\ status = 200) =>
        /\ ret.statistics.average = Mean(rates)
        /\ ret.statistics.volatility = ToFixed(Dispersion(rates), 2)

\* a response whose volatility the rounding changed
C14_Witness ==
  /\ op = "GET /api/historical"
  /\ status = 200
  /\ IsFinite(ret.statistics.volatility)
  /\ ret.statistics.volatility # Dispersion(rates)

\* the four functions of trendAnalysis.ts that draw no random value
PureFunctions == {"linearRegression", "calculateStatistics", "calculateConfidence", "analyzeTrend"}

OtherRuns(d) == {[i \in 1..d |-> v] : v \in RandomValues}

\* C16: two calls of generateForecast with the same series (length >= 2) and
\* the same horizon return lists of the same length whose corresponding points
\* differ by at most 0.002 in absolute value; they need not be equal.
C16_ForecastsDifferByNoiseOnly ==
  (op = "generateForecast" /\ Len(rates) >= 2) =>
    \A r \in OtherRuns(days) :
      LET again == generateForecast(rates, days, r)
      IN /\ Len(again) = Len(ret)
         /\ \A i \in 1..Len(ret) : Within(again[i], ret[i], Norm(2, 1000))

\* a forecast that another call, with other random values, does not repeat
C16_Witness ==
  /\ op = "generateForecast"
  /\ Len(rates) >= 2
  /\ days = MaxDays
  /\ \E r \in OtherRuns(days) :
       \E i \in 1..days : generateForecast(rates, days, r)[i] # ret[i]

\* C17: in every GET /api/forecast response the forecast entry at index i
\* (from 0) carries the date today + (i + 1) days and the i-th value
\* generateForecast returned: the entries are in strictly increasing date
\* order, one per day, from tomorrow to today + days.
C17_ForecastDatesFromTomorrow ==
  (op = "GET /api/forecast" /\ status = 200) =>
    LET forecast == ret.forecast
        forecastRates == generateForecast(rates, days, rnd)
        n == Len(forecast)
    IN /\ n = Len(forecastRates)
       /\ \A i \in 0..(n - 1) :
            /\ At(forecast, i).date = now + (i + 1)
            /\ At(forecast, i).rate = At(forecastRates, i)
       /\ \A i \in 1..(n - 1) : forecast[i + 1].date = forecast[i].date + 1
       /\ days >= 1 =>
            (n = days /\ forecast[1].date = now + 1 /\ forecast[n].date = now + days)

\* a response to a request without days: 30 entries, the last at today + 30
C17_Witness ==
  /\ op = "GET /api/forecast"
  /\ status = 200
  /\ query.days = Undefined
  /\ Len(ret.forecast) = 30
  /\ ret.forecast[30].date = now + 30

\* C18: there is a series of length >= 3 for which analyzeTrend returns 'up'
\* together with a negative percentChange, and one for which it returns 'down'
\* with a positive percentChange: 1, 0.5, 2, 2, 0.5 has the fitted slope 0.05
\* and ends below its first rate, and 0.5, 2, 2, 0.5, 1 is its reverse.
C18_DirectionDisagreesWithChange ==
  op = "analyzeTrend" =>
    /\ rates = <<Num(1), Norm(1, 2), Num(2), Num(2), Norm(1, 2)>> =>
         (ret.direction = "up" /\ ret.percentChange = Num(-50))
    /\ rates = <<Norm(1, 2), Num(2), Num(2), Norm(1, 2), Num(1)>> =>
         (ret.direction = "down" /\ ret.percentChange = Num(100))

\* 'up' with a negative percentChange, for positive rates
C18_Witness ==
  /\ op = "analyzeTrend"
  /\ Len(rates) >= 3
  /\ \A i \in 1..Len(rates) : Gt(rates[i], Num(0))
  /\ ret.direction = "up"
  /\ Lt(ret.percentChange, Num(0))

\* C19: every call of generateForecast made by a GET /api/forecast handler
\* passes a series of at least 2 rates, in the stored branch, in the branch
\* that has just fetched the provider's history, whatever a successful answer
\* holds, and in the hardcoded variant.
C19_ForecastSeriesHasTwoRates ==
  (op = "GET /api/forecast" /\ status = 200) => Len(rates) >= 2

\* C20: for every value of the days parameter (missing, not a number, zero,
\* negative, positive) the GET /api/forecast handler calls generateForecast
\* with a horizon >= 1, 30 when the value is unusable, so the forecast list is
\* not empty and has a first and a last point for percentChange.
C20_ForecastHorizonAtLeastOne ==
  (op = "GET /api/forecast" /\ status = 200) =>
    /\ days >= 1
    /\ Len(ret.forecast) >= 1
    /\ query.days \in {Undefined, <<"a", "b", "c">>, <<"0">>} => days = 30

-----------------------------------------------------------------------------
(* MemStorage *)

\* the elements of a sequence
Range(s) == {s[i] : i \in 1..Len(s)}

IsAscendingByDate(s) == \A i \in 1..(Len(s) - 1) : s[i].date <= s[i + 1].date

\* a step that is a call of the method (time does not pass during a call)
Calls(method) == op' = method /\ now' = now

\* the stored records of the pair that are not older than d days
InWindow(baseCurrency, targetCurrency, d) ==
  {r \in Range(exchangeRateRecords) :
     /\ r.baseCurrency = baseCurrency
     /\ r.targetCurrency = targetCurrency
     /\ r.date >= now - d}

\* what getExchangeRates returned is the window of its arguments, by date
ReturnsTheWindow ==
  /\ Range(ret) = InWindow(args[1], args[2], args[3])
  /\ Len(ret) = Cardinality(InWindow(args[1], args[2], args[3]))
  /\ IsAscendingByDate(ret)

\* C21: getExchangeRates(base, target, days) returns exactly the stored
\* records of the pair whose date is not earlier than `days` days before now,
\* in ascending order of date whatever the order they were saved in; so the
\* series GET /api/forecast reads from storage is in chronological order.
C21_ExchangeRatesOfTheWindowByDate ==
  /\ [][Calls("getExchangeRates") => ReturnsTheWindow']_vars
  /\ [](\A q \in ExternalQueries : IsAscendingByDate(StoredRates(q)))

\* a call returned two records that were saved in the opposite order, and
\* left out a record of the pair that is too old
C21_Witness ==
  /\ op = "getExchangeRates"
  /\ ReturnsTheWindow
  /\ \E i, j \in 1..Len(ret) : i < j /\ ret[i].id > ret[j].id
  /\ \E r \in Range(exchangeRateRecords) :
       r.baseCurrency = args[1] /\ r.targetCurrency = args[2] /\ r.date < now - args[3]

-----------------------------------------------------------------------------
(* GET /api/historical, the hardcoded variant *)

\* a response of the hardcoded variant's GET /api/historical to days >= 1
SimulatedResponse ==
  /\ op = "GET /api/historical"
  /\ variant = "hardcoded"
  /\ days >= 1

\* the base rate the table gives the pair of the request
TableRate ==
  LET baseCurrency == CurrencyOf(query.from, "USD")
      targetCurrency == CurrencyOf(query.to, "EUR")
  IN IF baseCurrency = "USD" /\ targetCurrency = "EUR" THEN Norm(92, 100)
     ELSE IF baseCurrency = "EUR" /\ targetCurrency = "USD" THEN Norm(109, 100)
     ELSE Num(1)

\* C22: the hardcoded variant's GET /api/historical with days >= 1 returns
\* exactly `days` rates dated today-(days-1) up to today in strictly ascending
\* order, each within +/- 2% of the pair's base rate (1.0 for an identical or
\* unlisted pair), and statistics with min <= average <= max and a finite
\* volatility >= 0.
C22_SimulatedHistoryAroundBaseRate ==
  SimulatedResponse =>
    /\ status = 200
    /\ Len(ret.rates) = days
    /\ \A i \in 1..Len(ret.rates) : ret.rates[i].date = now - (days - i)
    /\ \A i \in 1..(Len(ret.rates) - 1) : ret.rates[i].date < ret.rates[i + 1].date
    /\ \A i \in 1..Len(ret.rates) :
         Le(AbsOf(Sub(ret.rates[i].rate, TableRate)), Mul(Norm(2, 100), TableRate))
    /\ Le(ret.statistics.min, ret.statistics.average)
    /\ Le(ret.statistics.average, ret.statistics.max)
    /\ IsFinite(ret.statistics.volatility)
    /\ Le(Num(0), ret.statistics.volatility)

\* a response with two different rates: the statistics are not degenerate
C22_Witness ==
  /\ SimulatedResponse
  /\ days = 2
  /\ ret.rates[1].rate # ret.rates[2].rate
  /\ Lt(ret.statistics.min, ret.statistics.average)
  /\ Gt(ret.statistics.volatility, Num(0))

-----------------------------------------------------------------------------
(* The coefficient of determination *)

\* the sum of squared distances of the series from the least-squares line,
\* and from its mean
SSres(y) ==
  Sigma([i \in 0..(Len(y) - 1) |->
           Pow2(Sub(At(y, i), Add(Mul(LsqSlope(y), Num(i)), LsqIntercept(y))))], Len(y))
SStot(y) == Sigma([i \in 0..(Len(y) - 1) |-> Pow2(Sub(At(y, i), Mean(y)))], Len(y))
RSquared(y) == Sub(Num(1), Div(SSres(y), SStot(y)))

\* C23: for every non-constant series of length >= 2 the residual sum of
\* squares of the fitted line is at most the total sum of squares around the
\* mean, so R2 lies in [0, 1], and calculateConfidence returns exactly 50 when
\* R2 <= 0.5, exactly 95 when R2 >= 0.95, and 100 * R2 otherwise.
C23_ConfidenceIsClampedRSquared ==
  (op = "calculateConfidence" /\ Len(rates) >= 2 /\ ~IsConstant(rates)) =>
    /\ Le(SSres(rates), SStot(rates))
    /\ Le(Num(0), RSquared(rates))
    /\ Le(RSquared(rates), Num(1))
    /\ ret = IF Le(RSquared(rates), Norm(1, 2)) THEN Num(50)
             ELSE IF Le(Norm(95, 100), RSquared(rates)) THEN Num(95)
             ELSE Mul(Num(100), RSquared(rates))

\* a series the line explains in part, but not by half: the result is 50
C23_Witness ==
  /\ op = "calculateConfidence"
  /\ Len(rates) >= 2
  /\ ~IsConstant(rates)
  /\ Lt(Num(0), RSquared(rates))
  /\ Lt(RSquared(rates), Norm(1, 2))
  /\ ret = Num(50)

-----------------------------------------------------------------------------
(* GET /api/forecast: the expected range *)

\* half a unit of the fourth decimal: what toFixed(4) can move a bound by
HalfUnit == Norm(5, 100000)

\* C24: in every GET /api/forecast response, of either variant, expectedLow <=
\* expectedHigh and every rate of the forecast list lies between expectedLow
\* and expectedHigh, up to the rounding of the two bounds to 4 decimals.
C24_ForecastWithinExpectedRange ==
  (op = "GET /api/forecast" /\ status = 200) =>
    /\ Le(ret.analysis.expectedLow, ret.analysis.expectedHigh)
    /\ \A i \in 1..Len(ret.forecast) :
         /\ Le(Sub(ret.analysis.expectedLow, HalfUnit), ret.forecast[i].rate)
         /\ Le(ret.forecast[i].rate, Add(ret.analysis.expectedHigh, HalfUnit))

\* the records carry the ids 1, 2, 3, ... in the order they were saved in
IdsInOrder(records) == \A i \in 1..Len(records) : records[i].id = i

\* the records before the step are the first records after it, unchanged
KeepsRecords(before, after) ==
  /\ Len(before) <= Len(after)
  /\ SubSeq(after, 1, Len(before)) = before

\* C25: for each kind of MemStorage record (users, conversions, exchange
\* rates) the ids are 1, 2, 3, ... in the order of the save calls: under any
\* interleaving of the saves no two records of a kind share an id, no save
\* overwrites an earlier record, and the number of records is the id counter
\* minus 1.
C25_IdsCountTheSaves ==
  /\ [](/\ IdsInOrder(users) /\ Len(users) = userId - 1
        /\ IdsInOrder(conversionRecords) /\ Len(conversionRecords) = conversionId - 1
        /\ IdsInOrder(exchangeRateRecords) /\ Len(exchangeRateRecords) = exchangeRateId - 1)
  /\ [][/\ userId' # userId =>
             Len(users') = Len(users) + 1 /\ KeepsRecords(users, users')
        /\ conversionId' # conversionId =>
             /\ Len(conversionRecords') = Len(conversionRecords) + 1
             /\ KeepsRecords(conversionRecords, conversionRecords')
        /\ exchangeRateId' # exchangeRateId =>
             /\ Len(exchangeRateRecords') = Len(exchangeRateRecords) + 1
             /\ KeepsRecords(exchangeRateRecords, exchangeRateRecords')]_vars

\* a second user was created while an exchange rate is stored: each kind has
\* its own ids
C25_Witness ==
  /\ op = "createUser"
  /\ Len(users) = 2
  /\ ret.id = 2
  /\ Len(exchangeRateRecords) = 1
  /\ exchangeRateRecords[1].id = 1

\* the limit a call of getConversions, or a request of GET /api/conversions,
\* supplied: None when it supplied none
SuppliedLimit ==
  IF op = "getConversions" THEN args[1]
  ELSE IF args[1] = Undefined THEN None
  ELSE Some(ParseInt(args[1]))

IsNewestFirst(s) == \A i \in 1..(Len(s) - 1) : s[i].createdAt >= s[i + 1].createdAt

\* C26: getConversions(limit) returns conversions in descending order of
\* createdAt; for every numeric limit supplied, 0 and negative values
\* included, the result has at most `limit` entries (none for a limit below 1)
\* and they are the most recent ones; without a limit all conversions are
\* returned.
C26_NewestConversionsUpToLimit ==
  op \in {"getConversions", "GET /api/conversions"} =>
    /\ IsNewestFirst(ret)
    /\ Range(ret) \subseteq Range(conversionRecords)
    /\ \A c \in Range(ret), o \in Range(conversionRecords) \ Range(ret) :
         c.createdAt >= o.createdAt
    /\ SuppliedLimit = None => Len(ret) = Len(conversionRecords)
    /\ (SuppliedLimit # None /\ ~IsNaN(SuppliedLimit[1])) =>
         Len(ret) <= (IF SuppliedLimit[1].n > 0 THEN SuppliedLimit[1].n ELSE 0)

\* the methods of MemStorage that only read
Readers == {"getUser", "getUserByUsername", "getConversions", "getExchangeRates",
            "getLatestExchangeRate"}

\* the stored records of the pair
OfPair(baseCurrency, targetCurrency) ==
  {r \in Range(exchangeRateRecords) :
     r.baseCurrency = baseCurrency /\ r.targetCurrency = targetCurrency}

\* what getLatestExchangeRate returned: a record of the pair with the greatest
\* date, or undefined exactly when the pair has no record
ReturnsTheLatest ==
  IF OfPair(args[1], args[2]) = {} THEN ret = None
  ELSE /\ Len(ret) = 1
       /\ ret[1] \in OfPair(args[1], args[2])
       /\ \A r \in OfPair(args[1], args[2]) : r.date <= ret[1].date

\* C27: MemStorage is append-only: no operation removes or changes a stored
\* record; getUser, getUserByUsername, getConversions, getExchangeRates and
\* getLatestExchangeRate leave every record and id counter unchanged; and
\* getLatestExchangeRate returns a record of the requested pair with the
\* greatest date, or undefined exactly when the pair has no record.
C27_AppendOnlyAndReadersRead ==
  [][/\ KeepsRecords(users, users')
     /\ KeepsRecords(conversionRecords, conversionRecords')
     /\ KeepsRecords(exchangeRateRecords, exchangeRateRecords')
     /\ (Calls(op') /\ op' \in Readers) => UNCHANGED Records
     /\ Calls("getLatestExchangeRate") => ReturnsTheLatest']_vars

\* getLatestExchangeRate chose among the records of the pair, of which the
\* latest was not the one saved last
C27_Witness ==
  /\ op = "getLatestExchangeRate"
  /\ Cardinality(OfPair(args[1], args[2])) >= 2
  /\ ReturnsTheLatest
  /\ \E r \in OfPair(args[1], args[2]) : r.id > ret[1].id /\ r.date < ret[1].date

-----------------------------------------------------------------------------
(* GET /api/historical, the external variant: what is saved *)

\* no two of the entries carry the same date
DatesAreDistinct(s) == \A i, j \in 1..Len(s) : s[i].date = s[j].date => i = j

\* C28: the external variant's GET /api/historical fetches and saves provider
\* rates only for data that is not stored yet: after any sequence of requests
\* the storage holds at most one record per currency pair and date, so a
\* response served from storage lists each date at most once.
C28_OneRecordPerPairAndDate ==
  variant = "external" =>
    /\ \A i, j \in 1..Len(exchangeRateRecords) :
         (/\ exchangeRateRecords[i].baseCurrency = exchangeRateRecords[j].baseCurrency
          /\ exchangeRateRecords[i].targetCurrency = exchangeRateRecords[j].targetCurrency
          /\ exchangeRateRecords[i].date = exchangeRateRecords[j].date) => i = j
    /\ (op = "GET /api/historical" /\ branch = "stored") => DatesAreDistinct(ret.rates)

-----------------------------------------------------------------------------
(* CurrencyConverter: Convert & Save *)

\* the number of 'Conversion saved' toasts shown so far
SavedToasts == Cardinality({i \in 1..Len(toasts) : toasts[i] = "Conversion saved"})

\* the number of POST /api/conversions requests that succeeded so far: each
\* one saved a conversion
PostsSucceeded == Len(conversionRecords)

\* C29: in CurrencyConverter the 'Conversion saved' toast and the invalidation
\* of the conversions query occur only after a POST /api/conversions request
\* was actually sent and succeeded; when Convert & Save is triggered while no
\* rate data is available, no success is reported.
C29_SuccessOnlyAfterSuccessfulPost ==
  /\ PostsSucceeded <= posts
  /\ SavedToasts <= PostsSucceeded
  /\ invalidations <= PostsSucceeded

-----------------------------------------------------------------------------
(* The chart components *)

\* the charts of the component, and those of them not destroyed
ChartsOf(c) == {i \in 1..Len(charts) : charts[i].component = c}
Undestroyed(c) == {i \in ChartsOf(c) : ~charts[i].destroyed}

\* C30: in ForecastChart and HistoricalRatesChart, across any sequence of data
\* changes, currency-pair changes, loading transitions and unmount, at most
\* one Chart instance that has not been destroyed exists per component at any
\* time: the previous instance is destroyed before a new one is created, and
\* after the cleanup of an effect or unmount no undestroyed instance remains
\* referenced.
C30_OneLiveChartPerComponent ==
  \A c \in Components :
    /\ Cardinality(Undestroyed(c)) <= 1
    /\ Undestroyed(c) \subseteq {chartInstance[c]}
    /\ (phase[c] = "effect" \/ ~mounted[c]) =>
         Undestroyed(c) = {} /\ chartInstance[c] = Null

\* a component drew its second chart after its first was destroyed, and the
\* other component was unmounted after it had drawn one
C30_Witness ==
  \E c, o \in Components :
    /\ c # o
    /\ mounted[c]
    /\ chartInstance[c] # Null
    /\ Undestroyed(c) = {chartInstance[c]}
    /\ \E i \in ChartsOf(c) : charts[i].destroyed
    /\ ~mounted[o]
    /\ ChartsOf(o) # {}

=============================================================================
